---- MODULE Spec2Model ----
(***************************************************************************)
(* District-name reconciliation: clean_district_name, the difflib          *)
(* SequenceMatcher ratio, find_best_match, analyze_district_matching and   *)
(* create_merged_dataset, in their two implementations (the stdlib row     *)
(* loop of simple_district_analysis.py and the pandas left merge of        *)
(* district_matching_analysis.py).                                         *)
(*                                                                         *)
(* Specifications: Spec is a whole run of a script; SpecMatch is           *)
(* find_best_match, SpecSim the SequenceMatcher ratio and SpecClean        *)
(* clean_district_name, each on its own; SpecPar is the matching loop      *)
(* sharded over workers; SpecPop is a run of                               *)
(* create_population_by_gender_age_csv.py.                                 *)
(* SpecEq is a run of the stdlib script followed by a run of the pandas    *)
(* script on the same files.                                               *)
(*                                                                         *)
(* A Python str is a sequence of one-character strings.  None and the      *)
(* pandas missing value NaN are one-element sequences whose element is not *)
(* a character, so they differ from every str.  A score is the exact       *)
(* rational <<numerator, denominator>> of the float the code computes;     *)
(* scores are compared by cross-multiplication (float division is          *)
(* correctly rounded and monotone, and two different fractions of these    *)
(* sizes never round to the same float).                                   *)
(***************************************************************************)
EXTENDS Integers, Sequences, FiniteSets, TLC

VARIABLES
    impl,             \* "stdlib" or "pandas": which of the two scripts runs
    main_headers,     \* header row of the primary file
    main_data,        \* rows of the primary file
    ref_headers,      \* header row of the reference file
    ref_data,         \* rows of the reference file
    pc,               \* position in the script
    call,             \* how many times analyze_district_matching has been entered
    main_districts,   \* distinct primary names, in iteration order
    ref_districts,    \* distinct reference names, in iteration order
    idx,              \* loop position (1-based) in the current loop
    matches,          \* list of [main_district, reference_district, match_score]
    unmatched_main,   \* list of primary names with no match
    unmatched_ref,    \* reference names no match points to
    district_mapping, \* dict main_district -> reference_district
    ref_lookup,       \* dict name_uz -> [name_en, name_ru, code, region_id]
    merged_data,      \* rows of the merged dataset
    new_headers,      \* header row of the merged dataset
    files,            \* names of the output files written so far
    stdout,           \* diagnostics printed so far
    district_name,    \* find_best_match: the source name
    reference_names,  \* find_best_match: the candidate sequence
    threshold,        \* find_best_match: the threshold
    best_match,       \* find_best_match: best candidate so far (None at first)
    best_score,       \* find_best_match: best score so far (0 at first)
    sm_a,             \* SequenceMatcher: first string
    sm_b,             \* SequenceMatcher: second string
    queue,            \* SequenceMatcher.get_matching_blocks: pending (alo, ahi, blo, bhi)
    matching_blocks,  \* SequenceMatcher.get_matching_blocks: blocks (i, j, k) found
    score,            \* SequenceMatcher.ratio(): the result, or NoScore
    clean_name,       \* clean_district_name: its local `name`
    cleaned,          \* the values clean_district_name has returned, in order
    workers,          \* per worker: the source names it is to scan, and its
                      \* find_best_match locals
    merged_file,      \* create_population_by_gender_age_csv: the file it reads
    region_map,       \* dict region_id -> first word of name_en
    row_i,            \* position (1-based) of the `for row in rows` loop
    cat_i,            \* position (1-based) of the `for ... in AGE_CATEGORIES` loop
    output_rows,      \* rows collected so far
    next_id,          \* id the next collected row gets
    output_file,      \* rows written to the output file, None before that
    first_run         \* what the stdlib script ended with, once the pandas script
                      \* is run on the same files after it; NoRun before that

vars == <<impl, main_headers, main_data, ref_headers, ref_data, pc, call,
          main_districts, ref_districts, idx,
          matches, unmatched_main, unmatched_ref, district_mapping, ref_lookup,
          merged_data, new_headers, files, stdout, district_name, reference_names, threshold,
          best_match, best_score, sm_a, sm_b, queue, matching_blocks, score,
          clean_name, cleaned, workers,
          merged_file, region_map, row_i, cat_i, output_rows, next_id, output_file,
          first_run>>

(***************************************************************************)
(* Bounds of the model.                                                    *)
(***************************************************************************)
MaxMainRows == 2
MaxRefRows == 2
MaxCands == 2
MaxLen == 3
MaxPieces == 3
MaxWorkers == 2

(***************************************************************************)
(* Values that are not strings.                                            *)
(***************************************************************************)
None == <<"None">>
NaN == <<"NaN">>
NoScore == <<0, 0>>
Empty == <<>>

(***************************************************************************)
(* str.strip(), str.replace(tok, ''), str.lower()                          *)
(***************************************************************************)
IsSpace(c) == c \in {" ", "\t", "\n"}

RECURSIVE LStrip(_)
LStrip(s) ==
    IF s = <<>> THEN <<>>
    ELSE IF IsSpace(Head(s)) THEN LStrip(Tail(s)) ELSE s

RECURSIVE RStrip(_)
RStrip(s) ==
    IF s = <<>> THEN <<>>
    ELSE IF IsSpace(s[Len(s)]) THEN RStrip(SubSeq(s, 1, Len(s) - 1)) ELSE s

Strip(s) == RStrip(LStrip(s))

\* str.replace(tok, ''): the non-overlapping occurrences of tok, scanned from
\* the left, are removed in one pass.
RECURSIVE Replace(_, _)
Replace(s, tok) ==
    IF Len(s) < Len(tok) THEN s
    ELSE IF SubSeq(s, 1, Len(tok)) = tok
         THEN Replace(SubSeq(s, Len(tok) + 1, Len(s)), tok)
         ELSE <<Head(s)>> \o Replace(Tail(s), tok)

\* The upper-case characters that occur in the names and tokens of the model
\* (code points stand for the Cyrillic letters).
LowerChar(c) ==
    CASE c = "A" -> "a"
      [] c = "B" -> "b"
      [] c = "C" -> "c"
      [] c = "D" -> "d"
      [] c = "R" -> "r"
      [] c = "S" -> "s"
      [] c = "U" -> "u"
      [] c = "X" -> "x"
      [] c = "U+0420" -> "U+0440"
      [] c = "U+040E" -> "U+045E"
      [] c = "U+0423" -> "U+0443"
      [] OTHER -> c

Lower(s) == [i \in 1..Len(s) |-> LowerChar(s[i])]

(***************************************************************************)
(* The tokens clean_district_name removes, in the order it removes them.   *)
(***************************************************************************)
Tokens ==
    << <<" ","t","u","m","a","n","i">>,
       <<" ","d","i","s","t","r","i","c","t">>,
       <<" ","D","i","s","t","r","i","c","t">>,
       <<" ","s","h","a","h","r","i">>,
       <<" ","c","i","t","y">>,
       <<" ","C","i","t","y">>,
       <<"R","e","s","p","u","b","l","i","k","a","s","i">>,
       <<"U+0420","U+0435","U+0441","U+043F","U+0443","U+0431","U+043B","U+0438","U+043A","U+0430">>,
       <<"R","e","p","u","b","l","i","c"," ","o","f">>,
       <<"U+040E","U+0437","U+0431","U+0435","U+043A","U+0438","U+0441","U+0442","U+043E","U+043D">>,
       <<"U+0423","U+0437","U+0431","U+0435","U+043A","U+0438","U+0441","U+0442","U+0430","U+043D">>,
       <<"U","z","b","e","k","i","s","t","a","n">> >>

RECURSIVE ReplaceAll(_, _, _)
ReplaceAll(s, toks, n) ==
    IF n > Len(toks) THEN s ELSE ReplaceAll(Replace(s, toks[n]), toks, n + 1)

\* `if not name` (stdlib) / `pd.isna(name)` (pandas): the empty string, and
\* the missing value, clean to "".
clean_district_name(name) ==
    IF name = <<>> \/ name = NaN THEN <<>>
    ELSE Strip(ReplaceAll(Strip(name), Tokens, 1))

(***************************************************************************)
(* difflib.SequenceMatcher(None, a, b): isjunk is None, autojunk is on.    *)
(* Positions are 0-based and ranges half-open, as in difflib: the          *)
(* character at position i is a[i + 1].                                    *)
(***************************************************************************)
Chars(s) == {s[i] : i \in 1..Len(s)}

Count(c, s) == Cardinality({i \in 1..Len(s) : s[i] = c})

\* __chain_b: with 200 or more characters in b, the characters that make up
\* more than 1% of b (plus one) are dropped from the index b2j.
Popular(b) ==
    IF Len(b) >= 200
    THEN {c \in Chars(b) : Count(c, b) > (Len(b) \div 100) + 1}
    ELSE {}

\* Length of the run of equal, indexed characters starting at (i, j).
RECURSIVE RunLen(_, _, _, _, _, _, _)
RunLen(a, b, i, j, ahi, bhi, pop) ==
    IF i < ahi /\ j < bhi /\ a[i + 1] = b[j + 1] /\ b[j + 1] \notin pop
    THEN 1 + RunLen(a, b, i + 1, j + 1, ahi, bhi, pop)
    ELSE 0

SetMax(S) == CHOOSE x \in S : \A y \in S : y <= x
SetMin(S) == CHOOSE x \in S : \A y \in S : x <= y

\* Faulty variant: the scan of b stops one short of bhi (range(blo, bhi - 1)).
LongestRunShortOfBhi(a, b, alo, ahi, blo, bhi) ==
    LET pop == Popular(b)
        cells == (alo..(ahi - 1)) \X (blo..(bhi - 2))
        run == [c \in cells |-> RunLen(a, b, c[1], c[2], ahi, bhi, pop)]
        K == IF cells = {} THEN 0 ELSE SetMax({run[c] : c \in cells})
    IN IF K = 0 THEN <<alo, blo, 0>>
       ELSE LET i == SetMin({c[1] : c \in {d \in cells : run[d] = K}})
                j == SetMin({c[2] : c \in {d \in cells : d[1] = i /\ run[d] = K}})
            IN <<i, j, K>>

\* The j2len scan: the longest run; of the longest runs the one that starts
\* earliest in a, and of those the one that starts earliest in b.
LongestRun(a, b, alo, ahi, blo, bhi) ==
    LET pop == Popular(b)
        cells == (alo..(ahi - 1)) \X (blo..(bhi - 1))
        run == [c \in cells |-> RunLen(a, b, c[1], c[2], ahi, bhi, pop)]
        K == IF cells = {} THEN 0 ELSE SetMax({run[c] : c \in cells})
    IN IF K = 0 THEN <<alo, blo, 0>>
       ELSE LET i == SetMin({c[1] : c \in {d \in cells : run[d] = K}})
                j == SetMin({c[2] : c \in {d \in cells : d[1] = i /\ run[d] = K}})
            IN <<i, j, K>>

\* The two loops that extend the match over equal characters (no character is
\* junk, so the two junk loops after them never run).
RECURSIVE ExtendLeft(_, _, _, _, _)
ExtendLeft(a, b, alo, blo, m) ==
    IF m[1] > alo /\ m[2] > blo /\ a[m[1]] = b[m[2]]
    THEN ExtendLeft(a, b, alo, blo, <<m[1] - 1, m[2] - 1, m[3] + 1>>)
    ELSE m

RECURSIVE ExtendRight(_, _, _, _, _)
ExtendRight(a, b, ahi, bhi, m) ==
    IF m[1] + m[3] < ahi /\ m[2] + m[3] < bhi /\ a[m[1] + m[3] + 1] = b[m[2] + m[3] + 1]
    THEN ExtendRight(a, b, ahi, bhi, <<m[1], m[2], m[3] + 1>>)
    ELSE m

find_longest_match(a, b, alo, ahi, blo, bhi) ==
    ExtendRight(a, b, ahi, bhi,
        ExtendLeft(a, b, alo, blo, LongestRun(a, b, alo, ahi, blo, bhi)))

\* get_matching_blocks, one pop of its queue: the block found, and the left and
\* right remainders that are queued.
LeftRest(q, m) ==
    IF q[1] < m[1] /\ q[3] < m[2] THEN << <<q[1], m[1], q[3], m[2]>> >> ELSE <<>>

\* Faulty variant: the right remainder of b starts at the block's start, not its end.
RightRestFromBlockStart(q, m) ==
    IF m[1] + m[3] < q[2] /\ m[2] < q[4]
    THEN << <<m[1] + m[3], q[2], m[2], q[4]>> >>
    ELSE <<>>

RightRest(q, m) ==
    IF m[1] + m[3] < q[2] /\ m[2] + m[3] < q[4]
    THEN << <<m[1] + m[3], q[2], m[2] + m[3], q[4]>> >>
    ELSE <<>>

\* The summed size of the matching blocks of a[alo:ahi] and b[blo:bhi].
RECURSIVE MatchedSize(_, _, _, _, _, _)
RestSize(a, b, rest) ==
    IF rest = <<>> THEN 0
    ELSE MatchedSize(a, b, rest[1][1], rest[1][2], rest[1][3], rest[1][4])

MatchedSize(a, b, alo, ahi, blo, bhi) ==
    LET q == <<alo, ahi, blo, bhi>>
        m == find_longest_match(a, b, alo, ahi, blo, bhi)
    IN IF m[3] = 0 THEN 0
       ELSE m[3] + RestSize(a, b, LeftRest(q, m)) + RestSize(a, b, RightRest(q, m))

\* Faulty variant: two empty strings score 0.0.
calculate_ratioZeroWhenEmpty(m, length) == IF length = 0 THEN <<0, 1>> ELSE <<2 * m, length>>

\* _calculate_ratio: 2.0 * matches / length, and 1.0 when length is 0.
calculate_ratio(m, length) == IF length = 0 THEN <<1, 1>> ELSE <<2 * m, length>>

ratio(a, b) == calculate_ratio(MatchedSize(a, b, 0, Len(a), 0, Len(b)), Len(a) + Len(b))

ScoreGT(s, t) == s[1] * t[2] > t[1] * s[2]
ScoreGE(s, t) == s[1] * t[2] >= t[1] * s[2]
ScoreEQ(s, t) == s[1] * t[2] = t[1] * s[2]
Zero == <<0, 1>>
One == <<1, 1>>

(***************************************************************************)
(* find_best_match                                                         *)
(***************************************************************************)
\* Faulty variant: the strings are compared without lower-casing them.
similarityCaseSensitive(cleaned_name, ref_name) ==
    ratio(cleaned_name, clean_district_name(ref_name))

\* Faulty variant: the candidate is compared as it is, not cleaned.
similarityRawCandidate(cleaned_name, ref_name) ==
    ratio(Lower(cleaned_name), Lower(ref_name))

\* The score of one candidate against the cleaned source name.
similarity(cleaned_name, ref_name) ==
    ratio(Lower(cleaned_name), Lower(clean_district_name(ref_name)))

\* Faulty variant: `if score > best_score` (the threshold is not tested).
BestAfterNoThreshold(cleaned_name, ref_name, th, bm, bs) ==
    LET s == ratio(Lower(cleaned_name), Lower(clean_district_name(ref_name)))
    IN IF ScoreGT(s, bs) THEN <<ref_name, s>> ELSE <<bm, bs>>

\* Faulty variant: `if score >= threshold` (the best so far is not tested).
BestAfterLastWins(cleaned_name, ref_name, th, bm, bs) ==
    LET s == ratio(Lower(cleaned_name), Lower(clean_district_name(ref_name)))
    IN IF ScoreGE(s, th) THEN <<ref_name, s>> ELSE <<bm, bs>>

\* Faulty variant: `if score >= best_score and score >= threshold`.
BestAfterTieLast(cleaned_name, ref_name, th, bm, bs) ==
    LET s == ratio(Lower(cleaned_name), Lower(clean_district_name(ref_name)))
    IN IF ScoreGE(s, bs) /\ ScoreGE(s, th) THEN <<ref_name, s>> ELSE <<bm, bs>>

\* One iteration of the loop: <<best_match, best_score>> after ref_name.
BestAfter(cleaned_name, ref_name, th, bm, bs) ==
    LET s == similarity(cleaned_name, ref_name)
    IN IF ScoreGT(s, bs) /\ ScoreGE(s, th) THEN <<ref_name, s>> ELSE <<bm, bs>>

RECURSIVE BestFrom(_, _, _, _, _, _)
BestFrom(cleaned_name, refs, th, n, bm, bs) ==
    IF n > Len(refs) THEN <<bm, bs>>
    ELSE LET r == BestAfter(cleaned_name, refs[n], th, bm, bs)
         IN BestFrom(cleaned_name, refs, th, n + 1, r[1], r[2])

find_best_match(name, refs, th) ==
    BestFrom(clean_district_name(name), refs, th, 1, None, Zero)

\* The default thresholds of the two scripts.
DefaultThreshold(i) == IF i = "pandas" THEN <<8, 10>> ELSE <<7, 10>>

\* Python truth value of a str, None or NaN: only "" and None are false.
Truthy(v) == v /= <<>> /\ v /= None

(***************************************************************************)
(* Inputs of the model.                                                    *)
(***************************************************************************)
N_ab_tumani == <<"a","b"," ","t","u","m","a","n","i">>
N_ab_shahri == <<"a","b"," ","s","h","a","h","r","i">>
N_AB == <<"A","B">>
N_Abc == <<"A","b","c">>
N_xy == <<"x","y">>
N_abxy == <<"a","b","x","y">>
N_Uzbekistan == <<"U","z","b","e","k","i","s","t","a","n">>
N_Republic_of == <<"R","e","p","u","b","l","i","c"," ","o","f">>
N_Samarqand == <<"S","a","m","a","r","q","a","n","d">>
N_Samarqand_viloyati == N_Samarqand \o <<" ","v","i","l","o","y","a","t","i">>
N_Samarqand_shahri == N_Samarqand \o <<" ","s","h","a","h","r","i">>
N_Samarqand_tumani == N_Samarqand \o <<" ","t","u","m","a","n","i">>

\* Source and candidate names handed to find_best_match.
NamePool ==
    {N_ab_tumani, N_ab_shahri, N_AB, N_Abc, N_xy, N_abxy, N_Uzbekistan, N_Republic_of, <<>>}

Thresholds == {<<0, 1>>, <<1, 2>>, <<7, 10>>, <<8, 10>>, <<1, 1>>}

\* Strings handed to SequenceMatcher.
SimAlphabet == {"x", "y", "z"}

SeqsUpTo(S, n) == UNION {[1..k -> S] : k \in 0..n}

\* Klassifikator cells of the primary file, name_uz cells of the reference file.
MainNamePool == {N_ab_tumani, N_xy, N_Uzbekistan, <<>>}
RefNamePool == {N_ab_shahri, N_ab_tumani, N_Uzbekistan, <<>>}

Digit(i) == <<"1", "2", "3", "4", "5", "6", "7", "8", "9">>[i]

\* The i-th row of a file: its other fields are those of row i.
MainRow(name, i) == << <<"v", Digit(i)>>, name >>
RefRow(name, i) ==
    <<name, <<"e", Digit(i)>>, <<"r", Digit(i)>>, <<"c", Digit(i)>>, <<"g", Digit(i)>> >>

\* load_csv_data keeps an empty cell as ''; pd.read_csv reads it as NaN.
ReadCell(i, cell) == IF i = "pandas" /\ cell = <<>> THEN NaN ELSE cell

\* The pandas model covers primary files with no missing Klassifikator.
MainTables(i) ==
    LET pool == IF i = "pandas" THEN MainNamePool \ {<<>>} ELSE MainNamePool
    IN UNION {{[r \in 1..n |-> MainRow(f[r], r)] : f \in [1..n -> pool]} : n \in 1..MaxMainRows}

RefTables(i) ==
    UNION {{[r \in 1..n |-> RefRow(ReadCell(i, f[r]), r)] : f \in [1..n -> RefNamePool]}
           : n \in 1..MaxRefRows}

\* Column names are atoms.  The header rows of well-formed files.
MainHeader == <<"Value", "Klassifikator">>
RefHeader == <<"name_uz", "name_en", "name_ru", "code", "region_id">>

\* A file is its header row and its data rows.
MainFiles(i) == {[headers |-> MainHeader, rows |-> t] : t \in MainTables(i)}
RefFiles(i) == {[headers |-> RefHeader, rows |-> t] : t \in RefTables(i)}

\* The same file with column k absent, and with its columns in reverse order.
DropCell(row, k) == SubSeq(row, 1, k - 1) \o SubSeq(row, k + 1, Len(row))
DropColumn(f, k) ==
    [headers |-> DropCell(f.headers, k),
     rows |-> [r \in DOMAIN f.rows |-> DropCell(f.rows[r], k)]]
Reversed(row) == [k \in DOMAIN row |-> row[Len(row) + 1 - k]]
ReverseColumns(f) ==
    [headers |-> Reversed(f.headers), rows |-> [r \in DOMAIN f.rows |-> Reversed(f.rows[r])]]

\* One-row files, and what becomes of them with a column absent or moved.
OneRowMainFiles ==
    {[headers |-> MainHeader, rows |-> <<MainRow(n, 1)>>] : n \in {N_ab_tumani, N_xy}}
OneRowRefFiles ==
    {[headers |-> RefHeader, rows |-> <<RefRow(n, 1)>>] : n \in {N_ab_shahri, N_Uzbekistan}}
VariantMainFiles ==
    OneRowMainFiles
        \cup {DropColumn(f, k) : f \in OneRowMainFiles, k \in DOMAIN MainHeader}
        \cup {ReverseColumns(f) : f \in OneRowMainFiles}
VariantRefFiles ==
    OneRowRefFiles
        \cup {DropColumn(f, k) : f \in OneRowRefFiles, k \in DOMAIN RefHeader}
        \cup {ReverseColumns(f) : f \in OneRowRefFiles}

\* The files of the Samarqand example: two primary rows, one reference row.
ScenarioMainFiles ==
    {[headers |-> MainHeader, rows |-> <<MainRow(a, 1), MainRow(b, 2)>>]
        : a, b \in {N_Samarqand_viloyati, N_Samarqand_tumani}}
ScenarioRefFiles == {[headers |-> RefHeader, rows |-> <<RefRow(N_Samarqand_shahri, 1)>>]}

\* list.index(col): the first position of col; 0 stands for the ValueError
\* (KeyError for a DataFrame column) raised when col is absent.
Has(headers, col) == \E k \in DOMAIN headers : headers[k] = col
IndexOf(headers, col) ==
    IF Has(headers, col) THEN SetMin({k \in DOMAIN headers : headers[k] = col}) ELSE 0

\* Column positions: main_headers.index('Klassifikator'), ref_headers.index(...).
main_klassifikator_idx == IndexOf(main_headers, "Klassifikator")
ref_name_uz_idx == IndexOf(ref_headers, "name_uz")
ref_name_en_idx == IndexOf(ref_headers, "name_en")
ref_name_ru_idx == IndexOf(ref_headers, "name_ru")
ref_code_idx == IndexOf(ref_headers, "code")
ref_region_id_idx == IndexOf(ref_headers, "region_id")

(***************************************************************************)
(* Collections                                                             *)
(***************************************************************************)
Column(rows, c) == [i \in 1..Len(rows) |-> rows[i][c]]

\* The orders in which a Python set of these elements can be iterated.
Orders(S) == {f \in [1..Cardinality(S) -> S] : \A x \in S : \E i \in DOMAIN f : f[i] = x}

\* Series.unique(): the distinct values in order of first appearance.
RECURSIVE Unique(_)
Unique(col) ==
    IF col = <<>> THEN <<>>
    ELSE LET init == Unique(SubSeq(col, 1, Len(col) - 1))
             last == col[Len(col)]
         IN IF \E i \in DOMAIN init : init[i] = last THEN init ELSE Append(init, last)

DictPut(d, k, v) == [x \in (DOMAIN d) \cup {k} |-> IF x = k THEN v ELSE d[x]]
DictGet(d, k) == IF k \in DOMAIN d THEN d[k] ELSE None
EmptyDict == [x \in {} |-> None]

\* {m['main_district']: m['reference_district'] for m in matches}
RECURSIVE MappingOf(_, _)
MappingOf(ms, n) ==
    IF n = 0 THEN EmptyDict
    ELSE DictPut(MappingOf(ms, n - 1), ms[n].main_district, ms[n].reference_district)

\* The loop that fills ref_lookup: a later row overwrites an earlier one.
RECURSIVE LookupOf(_, _)
LookupOf(rows, n) ==
    IF n = 0 THEN EmptyDict
    ELSE DictPut(LookupOf(rows, n - 1), rows[n][ref_name_uz_idx],
                 [name_en |-> rows[n][ref_name_en_idx],
                  name_ru |-> rows[n][ref_name_ru_idx],
                  code |-> rows[n][ref_code_idx],
                  region_id |-> rows[n][ref_region_id_idx]])

MatchEntry(name, r) ==
    [main_district |-> name, reference_district |-> r[1], match_score |-> r[2]]

(***************************************************************************)
(* The script: analyze_district_matching(), then create_merged_dataset(),  *)
(* which calls analyze_district_matching() again.                          *)
(***************************************************************************)
fbmVars == <<district_name, reference_names, threshold, best_match, best_score>>
smVars == <<sm_a, sm_b, queue, matching_blocks, score>>
dataVars == <<impl, main_headers, main_data, ref_headers, ref_data>>
mergeVars == <<district_mapping, ref_lookup, merged_data, new_headers>>
cleanVars == <<clean_name, cleaned>>
parVars == <<workers>>
popVars == <<merged_file, region_map, row_i, cat_i, output_rows, next_id, output_file>>
eqVars == <<first_run>>

FbmIdle ==
    /\ district_name = <<>>
    /\ reference_names = <<>>
    /\ threshold = Zero
    /\ best_match = None
    /\ best_score = Zero

SmIdle ==
    /\ sm_a = <<>>
    /\ sm_b = <<>>
    /\ queue = <<>>
    /\ matching_blocks = <<>>
    /\ score = NoScore

CleanIdle ==
    /\ clean_name = <<>>
    /\ cleaned = <<>>

NoWorkers == workers = <<>>

NoRun == [pc |-> "none", matches |-> <<>>, merged_data |-> <<>>]

PopIdle ==
    /\ merged_file = [headers |-> <<>>, rows |-> <<>>]
    /\ region_map = EmptyDict
    /\ row_i = 1
    /\ cat_i = 1
    /\ output_rows = <<>>
    /\ next_id = 1
    /\ output_file = None

PipelineIdle ==
    /\ call = 0
    /\ main_districts = <<>>
    /\ ref_districts = <<>>
    /\ unmatched_ref = {}
    /\ district_mapping = EmptyDict
    /\ ref_lookup = EmptyDict
    /\ merged_data = <<>>
    /\ new_headers = <<>>
    /\ files = {}
    /\ stdout = {}

Init ==
    /\ impl \in {"stdlib", "pandas"}
    /\ \E m \in MainFiles(impl) \cup VariantMainFiles \cup ScenarioMainFiles,
          r \in RefFiles(impl) \cup VariantRefFiles \cup ScenarioRefFiles :
          /\ \/ m \in MainFiles(impl) /\ r \in RefFiles(impl)
             \/ m \in VariantMainFiles /\ r \in VariantRefFiles
             \/ m \in ScenarioMainFiles /\ r \in ScenarioRefFiles
          /\ main_headers = m.headers
          /\ main_data = m.rows
          /\ ref_headers = r.headers
          /\ ref_data = r.rows
    /\ pc = "main"
    /\ idx = 1
    /\ matches = <<>>
    /\ unmatched_main = <<>>
    /\ PipelineIdle
    /\ FbmIdle
    /\ SmIdle
    /\ CleanIdle
    /\ NoWorkers
    /\ PopIdle
    /\ first_run = NoRun

\* The distinct names of a column in the order the script iterates them: a set
\* (stdlib) iterates in an order the program does not choose, unique() (pandas)
\* in order of first appearance.
DistrictOrders(i, col) ==
    IF i = "pandas" THEN {Unique(col)} ELSE Orders({col[k] : k \in DOMAIN col})

\* Entry of analyze_district_matching, up to the matching loop.  The second
\* call builds the same sets from the same files in the same process, so it
\* iterates them in the same order.
AnalyzeEnter ==
    /\ pc \in {"main", "create"}
    /\ Has(main_headers, "Klassifikator")
    /\ Has(ref_headers, "name_uz")
    /\ call' = call + 1
    /\ IF call = 0
       THEN /\ main_districts' \in DistrictOrders(impl, Column(main_data, main_klassifikator_idx))
            /\ ref_districts' \in DistrictOrders(impl, Column(ref_data, ref_name_uz_idx))
       ELSE UNCHANGED <<main_districts, ref_districts>>
    /\ matches' = <<>>
    /\ unmatched_main' = <<>>
    /\ idx' = 1
    /\ pc' = "match_loop"
    /\ UNCHANGED <<dataVars, unmatched_ref, mergeVars, files, fbmVars, smVars,
                   stdout, cleanVars, parVars, popVars, eqVars>>

\* main_headers.index('Klassifikator') or ref_headers.index('name_uz') raises
\* ValueError (stdlib); main_df['Klassifikator'] or ref_df['name_uz'] raises
\* KeyError (pandas).  Nothing catches it: the script ends.
AnalyzeMissingColumn ==
    /\ pc \in {"main", "create"}
    /\ ~Has(main_headers, "Klassifikator") \/ ~Has(ref_headers, "name_uz")
    /\ call' = call + 1
    /\ pc' = "error"
    /\ UNCHANGED <<dataVars, main_districts, ref_districts, idx, matches, unmatched_main,
                   unmatched_ref, mergeVars, files, fbmVars, smVars, stdout, cleanVars,
                   parVars, popVars, eqVars>>

\* One iteration of `for main_district in main_districts`.
MatchDistrict ==
    /\ pc = "match_loop"
    /\ idx <= Len(main_districts)
    /\ LET main_district == main_districts[idx]
           r == find_best_match(main_district, ref_districts, DefaultThreshold(impl))
       IN IF Truthy(r[1])
          THEN /\ matches' = Append(matches, MatchEntry(main_district, r))
               /\ UNCHANGED unmatched_main
          ELSE /\ unmatched_main' = Append(unmatched_main, main_district)
               /\ UNCHANGED matches
    /\ idx' = idx + 1
    /\ UNCHANGED <<dataVars, pc, call, main_districts, ref_districts, unmatched_ref,
                   mergeVars, files, fbmVars, smVars, stdout, cleanVars, parVars, popVars, eqVars>>

\* A name_uz column with no name at all is read by read_csv as float64, and
\* iterating a float64 array makes a new NaN object at each step.
FloatColumn(names) == names /= <<>> /\ \A k \in DOMAIN names : names[k] = NaN

\* The reference names `d in matched_ref_districts` is true of.  Membership
\* compares by identity, then by ==, and NaN == NaN is false: the NaN of a
\* match is found again only when it is the one object np.nan of a column of
\* dtype object, not when the column is float64.
MatchedRefDistricts ==
    {matches[k].reference_district : k \in DOMAIN matches}
        \ (IF impl = "pandas" /\ FloatColumn(ref_districts) THEN {NaN} ELSE {})

\* The rest of analyze_district_matching: the unmatched reference names, the
\* results file (written only when there is a match), and the return.
AnalyzeReturn ==
    /\ pc = "match_loop"
    /\ idx > Len(main_districts)
    /\ unmatched_ref' = {ref_districts[k] : k \in DOMAIN ref_districts} \ MatchedRefDistricts
    /\ files' = IF matches /= <<>> THEN files \cup {"district_matching_results.csv"} ELSE files
    /\ pc' = IF call = 1 THEN "create" ELSE "check_matches"
    /\ UNCHANGED <<dataVars, call, main_districts, ref_districts, idx, matches,
                   unmatched_main, mergeVars, fbmVars, smVars, stdout, cleanVars,
                   parVars, popVars, eqVars>>

\* print("No matches found. Cannot create merged dataset.")
NoMatchesFound == "No matches found. Cannot create merged dataset."

\* Faulty variant: the diagnostic is printed but the `return` is missing, so
\* the merge goes on with an empty district_mapping.
NoMatchesNoReturn ==
    /\ pc = "check_matches"
    /\ matches = <<>>
    /\ stdout' = stdout \cup {NoMatchesFound}
    /\ ref_lookup' = [x \in {} |-> None]
    /\ idx' = 1
    /\ pc' = IF impl = "stdlib" THEN "merge_loop" ELSE "pandas_merge"
    /\ UNCHANGED <<dataVars, call, main_districts, ref_districts, matches,
                   unmatched_main, unmatched_ref, district_mapping, merged_data,
                   new_headers, files, fbmVars, smVars, cleanVars, parVars, popVars, eqVars>>

\* `if not matches: print(...); return`: create_merged_dataset returns None.
NoMatches ==
    /\ pc = "check_matches"
    /\ matches = <<>>
    /\ stdout' = stdout \cup {NoMatchesFound}
    /\ pc' = "aborted"
    /\ UNCHANGED <<dataVars, call, main_districts, ref_districts, idx, matches,
                   unmatched_main, unmatched_ref, mergeVars, files, fbmVars, smVars,
                   cleanVars, parVars, popVars, eqVars>>

\* The reference columns whose positions the stdlib script looks up for its
\* index, and the columns the pandas script selects for the merge.
LookupColumns == {"name_uz", "name_en", "name_ru", "code", "region_id"}

\* One of the ref_headers.index(...) calls for the index raises ValueError
\* (stdlib), after district_mapping has been built.
LookupMissingColumn ==
    /\ pc = "check_matches"
    /\ matches /= <<>>
    /\ impl = "stdlib"
    /\ \E col \in LookupColumns : ~Has(ref_headers, col)
    /\ district_mapping' = MappingOf(matches, Len(matches))
    /\ pc' = "error"
    /\ UNCHANGED <<dataVars, call, main_districts, ref_districts, idx, matches,
                   unmatched_main, unmatched_ref, ref_lookup, merged_data, new_headers,
                   files, fbmVars, smVars, stdout, cleanVars, parVars, popVars, eqVars>>

\* district_mapping, and (stdlib) the reference lookup dictionary.
BuildMapping ==
    /\ pc = "check_matches"
    /\ matches /= <<>>
    /\ impl = "stdlib" => \A col \in LookupColumns : Has(ref_headers, col)
    /\ district_mapping' = MappingOf(matches, Len(matches))
    /\ ref_lookup' = IF impl = "stdlib" THEN LookupOf(ref_data, Len(ref_data)) ELSE ref_lookup
    /\ idx' = 1
    /\ pc' = IF impl = "stdlib" THEN "merge_loop" ELSE "pandas_merge"
    /\ UNCHANGED <<dataVars, call, main_districts, ref_districts, matches,
                   unmatched_main, unmatched_ref, merged_data, new_headers, files,
                   fbmVars, smVars, stdout, cleanVars, parVars, popVars, eqVars>>

\* Faulty variant: the attributes are looked up under the primary name when the index
\* has it, not under the assigned reference name.
MergedRowByMainName(row, mapping, lookup) ==
    LET main_district == row[main_klassifikator_idx]
        ref_district == DictGet(mapping, main_district)
    IN IF Truthy(ref_district) /\ ref_district \in DOMAIN lookup
       THEN LET ref_info == IF main_district \in DOMAIN lookup
                            THEN lookup[main_district] ELSE lookup[ref_district]
            IN row \o <<ref_district, ref_info.name_en, ref_info.name_ru,
                        ref_info.code, ref_info.region_id>>
       ELSE row \o <<Empty, Empty, Empty, Empty, Empty>>

\* Faulty variant: the English and the Russian name are appended in the
\* other order.
MergedRowRussianFirst(row, mapping, lookup) ==
    LET main_district == row[main_klassifikator_idx]
        ref_district == DictGet(mapping, main_district)
    IN IF Truthy(ref_district) /\ ref_district \in DOMAIN lookup
       THEN LET ref_info == lookup[ref_district]
            IN row \o <<ref_district, ref_info.name_ru, ref_info.name_en,
                        ref_info.code, ref_info.region_id>>
       ELSE row \o <<Empty, Empty, Empty, Empty, Empty>>

\* The body of `for row in main_data` (stdlib).
MergedRow(row, mapping, lookup) ==
    LET main_district == row[main_klassifikator_idx]
        ref_district == DictGet(mapping, main_district)
    IN IF Truthy(ref_district) /\ ref_district \in DOMAIN lookup
       THEN LET ref_info == lookup[ref_district]
            IN row \o <<ref_district, ref_info.name_en, ref_info.name_ru,
                        ref_info.code, ref_info.region_id>>
       ELSE row \o <<Empty, Empty, Empty, Empty, Empty>>

\* Faulty variant: the row loop takes the assignment out of district_mapping
\* (dict.pop for dict.get), so only the first row of a name finds it.
MergeRowPopsMapping ==
    /\ pc = "merge_loop"
    /\ idx <= Len(main_data)
    /\ merged_data' = Append(merged_data, MergedRow(main_data[idx], district_mapping, ref_lookup))
    /\ district_mapping' =
          [k \in (DOMAIN district_mapping) \ {main_data[idx][main_klassifikator_idx]}
              |-> district_mapping[k]]
    /\ idx' = idx + 1
    /\ UNCHANGED <<dataVars, pc, call, main_districts, ref_districts, matches,
                   unmatched_main, unmatched_ref, ref_lookup, new_headers,
                   files, fbmVars, smVars, stdout, cleanVars, parVars, popVars, eqVars>>

MergeRow ==
    /\ pc = "merge_loop"
    /\ idx <= Len(main_data)
    /\ merged_data' = Append(merged_data, MergedRow(main_data[idx], district_mapping, ref_lookup))
    /\ idx' = idx + 1
    /\ UNCHANGED <<dataVars, pc, call, main_districts, ref_districts, matches,
                   unmatched_main, unmatched_ref, district_mapping, ref_lookup,
                   new_headers, files, fbmVars, smVars, stdout, cleanVars, parVars, popVars, eqVars>>

\* The columns appended to the primary columns.
RefColumns == <<"ref_name_uz", "ref_name_en", "ref_name_ru", "ref_code", "ref_region_id">>

\* new_headers, and the merged file written after the loop (stdlib).
SaveMerged ==
    /\ pc = "merge_loop"
    /\ idx > Len(main_data)
    /\ new_headers' = main_headers \o RefColumns
    /\ files' = files \cup {"merged_district_data.csv"}
    /\ pc' = "done"
    /\ UNCHANGED <<dataVars, call, main_districts, ref_districts, idx, matches,
                   unmatched_main, unmatched_ref, district_mapping, ref_lookup,
                   merged_data, fbmVars, smVars, stdout, cleanVars, parVars, popVars, eqVars>>

\* Series.map(dict): the value under the key, NaN for a key the dict lacks.
MapCell(mapping, key) == IF key \in DOMAIN mapping THEN mapping[key] ELSE NaN

\* The rows DataFrame.merge(how='left') yields for one left row: one per right
\* row whose name_uz equals the key, in right order (a NaN key equals a NaN
\* name_uz), and one row of NaN when there is none.  The columns are the left
\* row's, reference_district, and the five reference columns.
RECURSIVE RightMatches(_, _, _)
RightMatches(rows, key, n) ==
    IF n > Len(rows) THEN <<>>
    ELSE (IF rows[n][ref_name_uz_idx] = key THEN <<rows[n]>> ELSE <<>>)
         \o RightMatches(rows, key, n + 1)

\* ref_df[['name_uz', 'name_en', 'name_ru', 'code', 'region_id']]
SelectColumns(row) ==
    <<row[ref_name_uz_idx], row[ref_name_en_idx], row[ref_name_ru_idx],
      row[ref_code_idx], row[ref_region_id_idx]>>

LeftJoinRow(row, mapping, rows) ==
    LET key == MapCell(mapping, row[main_klassifikator_idx])
        hits == RightMatches(rows, key, 1)
    IN IF hits = <<>>
       THEN << row \o <<key, NaN, NaN, NaN, NaN, NaN>> >>
       ELSE [h \in 1..Len(hits) |-> row \o <<key>> \o SelectColumns(hits[h])]

RECURSIVE LeftJoin(_, _, _, _)
LeftJoin(left, mapping, rows, n) ==
    IF n > Len(left) THEN <<>>
    ELSE LeftJoinRow(left[n], mapping, rows) \o LeftJoin(left, mapping, rows, n + 1)

\* Series.map gives a float64 column when every value of the dict is NaN, and
\* merge refuses to join a float64 key to an object key that holds strings.
MergeKeysMismatch(mapping, rows) ==
    /\ \A k \in DOMAIN mapping : mapping[k] = NaN
    /\ \E n \in DOMAIN rows : rows[n][ref_name_uz_idx] /= NaN

\* ref_df[[...]] raises KeyError for an absent column: the script ends
\* without a merged file.
PandasMissingColumn ==
    /\ pc = "pandas_merge"
    /\ \E col \in LookupColumns : ~Has(ref_headers, col)
    /\ pc' = "error"
    /\ UNCHANGED <<dataVars, call, main_districts, ref_districts, idx, matches,
                   unmatched_main, unmatched_ref, mergeVars, files, fbmVars, smVars,
                   stdout, cleanVars, parVars, popVars, eqVars>>

\* main_df.merge(...) raises ValueError: the script ends without a merged file.
PandasMergeError ==
    /\ pc = "pandas_merge"
    /\ \A col \in LookupColumns : Has(ref_headers, col)
    /\ MergeKeysMismatch(district_mapping, ref_data)
    /\ pc' = "error"
    /\ UNCHANGED <<dataVars, call, main_districts, ref_districts, idx, matches,
                   unmatched_main, unmatched_ref, mergeVars, files, fbmVars, smVars,
                   stdout, cleanVars, parVars, popVars, eqVars>>

\* main_df.merge(...), rename and to_csv (pandas).
PandasMerge ==
    /\ pc = "pandas_merge"
    /\ \A col \in LookupColumns : Has(ref_headers, col)
    /\ ~MergeKeysMismatch(district_mapping, ref_data)
    /\ merged_data' = LeftJoin(main_data, district_mapping, ref_data, 1)
    /\ new_headers' = main_headers \o <<"reference_district">> \o RefColumns
    /\ files' = files \cup {"merged_district_data.csv"}
    /\ pc' = "done"
    /\ UNCHANGED <<dataVars, call, main_districts, ref_districts, idx, matches,
                   unmatched_main, unmatched_ref, district_mapping, ref_lookup,
                   fbmVars, smVars, stdout, cleanVars, parVars, popVars, eqVars>>

Next ==
    \/ AnalyzeEnter
    \/ MatchDistrict
    \/ AnalyzeReturn
    \/ NoMatches
    \/ BuildMapping
    \/ MergeRow
    \/ SaveMerged
    \/ PandasMerge
    \/ PandasMergeError
    \/ AnalyzeMissingColumn
    \/ LookupMissingColumn
    \/ PandasMissingColumn

Spec == Init /\ [][Next]_vars

(***************************************************************************)
(* find_best_match on its own: any source name, candidate sequence and     *)
(* threshold, one loop iteration per step, and then the `if best_match`    *)
(* of analyze_district_matching that records the result.                   *)
(***************************************************************************)
pipeVars == <<call, main_districts, ref_districts, unmatched_ref, mergeVars, files, stdout>>

InitMatch ==
    /\ district_name \in NamePool
    /\ reference_names \in SeqsUpTo(NamePool, MaxCands)
    /\ threshold \in Thresholds
    /\ best_match = None
    /\ best_score = Zero
    /\ idx = 1
    /\ pc = "fbm_loop"
    /\ matches = <<>>
    /\ unmatched_main = <<>>
    /\ impl = "stdlib"
    /\ main_headers = <<>>
    /\ main_data = <<>>
    /\ ref_headers = <<>>
    /\ ref_data = <<>>
    /\ PipelineIdle
    /\ SmIdle
    /\ CleanIdle
    /\ NoWorkers
    /\ PopIdle
    /\ first_run = NoRun

\* One iteration of `for ref_name in reference_names`.
FbmIterate ==
    /\ pc = "fbm_loop"
    /\ idx <= Len(reference_names)
    /\ LET r == BestAfter(clean_district_name(district_name), reference_names[idx],
                          threshold, best_match, best_score)
       IN /\ best_match' = r[1]
          /\ best_score' = r[2]
    /\ idx' = idx + 1
    /\ UNCHANGED <<dataVars, pc, pipeVars, matches, unmatched_main,
                   district_name, reference_names, threshold, smVars, cleanVars,
                   parVars, popVars, eqVars>>

\* `return best_match, best_score`
FbmReturn ==
    /\ pc = "fbm_loop"
    /\ idx > Len(reference_names)
    /\ pc' = "fbm_returned"
    /\ UNCHANGED <<dataVars, idx, pipeVars, matches, unmatched_main, fbmVars, smVars,
                   cleanVars, parVars, popVars, eqVars>>

\* `if best_match: matches.append(...) else: unmatched_main.append(...)`
RecordMatch ==
    /\ pc = "fbm_returned"
    /\ IF Truthy(best_match)
       THEN /\ matches' = Append(matches, MatchEntry(district_name, <<best_match, best_score>>))
            /\ UNCHANGED unmatched_main
       ELSE /\ unmatched_main' = Append(unmatched_main, district_name)
            /\ UNCHANGED matches
    /\ pc' = "recorded"
    /\ UNCHANGED <<dataVars, idx, pipeVars, fbmVars, smVars, cleanVars, parVars, popVars, eqVars>>

NextMatch ==
    \/ FbmIterate
    \/ FbmReturn
    \/ RecordMatch

SpecMatch == InitMatch /\ [][NextMatch]_vars

(***************************************************************************)
(* SequenceMatcher(None, a, b).ratio() on its own: get_matching_blocks     *)
(* works off its queue one pop per step, then ratio() sums the blocks.     *)
(***************************************************************************)
InitSim ==
    /\ sm_a \in SeqsUpTo(SimAlphabet, MaxLen)
    /\ sm_b \in SeqsUpTo(SimAlphabet, MaxLen)
    /\ queue = << <<0, Len(sm_a), 0, Len(sm_b)>> >>
    /\ matching_blocks = <<>>
    /\ score = NoScore
    /\ pc = "sm_blocks"
    /\ idx = 1
    /\ matches = <<>>
    /\ unmatched_main = <<>>
    /\ impl = "stdlib"
    /\ main_headers = <<>>
    /\ main_data = <<>>
    /\ ref_headers = <<>>
    /\ ref_data = <<>>
    /\ PipelineIdle
    /\ FbmIdle
    /\ CleanIdle
    /\ NoWorkers
    /\ PopIdle
    /\ first_run = NoRun

\* `alo, ahi, blo, bhi = queue.pop()`, find_longest_match, and the appends.
SmPop ==
    /\ pc = "sm_blocks"
    /\ queue /= <<>>
    /\ LET q == queue[Len(queue)]
           rest == SubSeq(queue, 1, Len(queue) - 1)
           m == find_longest_match(sm_a, sm_b, q[1], q[2], q[3], q[4])
       IN IF m[3] > 0
          THEN /\ matching_blocks' = Append(matching_blocks, m)
               /\ queue' = rest \o LeftRest(q, m) \o RightRest(q, m)
          ELSE /\ queue' = rest
               /\ UNCHANGED matching_blocks
    /\ UNCHANGED <<dataVars, pc, idx, pipeVars, matches, unmatched_main, fbmVars,
                   sm_a, sm_b, score, cleanVars, parVars, popVars, eqVars>>

RECURSIVE SumSizes(_, _)
SumSizes(blocks, n) == IF n = 0 THEN 0 ELSE blocks[n][3] + SumSizes(blocks, n - 1)

\* ratio(): `matches = sum(triple[-1] for triple in self.get_matching_blocks())`
SmRatio ==
    /\ pc = "sm_blocks"
    /\ queue = <<>>
    /\ score' = calculate_ratio(SumSizes(matching_blocks, Len(matching_blocks)),
                                Len(sm_a) + Len(sm_b))
    /\ pc' = "sm_done"
    /\ UNCHANGED <<dataVars, idx, pipeVars, matches, unmatched_main, fbmVars,
                   sm_a, sm_b, queue, matching_blocks, cleanVars, parVars, popVars, eqVars>>

NextSim ==
    \/ SmPop
    \/ SmRatio

SpecSim == InitSim /\ [][NextSim]_vars

(***************************************************************************)
(* clean_district_name on its own, applied to a string and then to its own *)
(* result: the strip, one str.replace per step, the final strip.           *)
(***************************************************************************)
\* The strings handed to clean_district_name are built from these pieces.
P_a == <<"a">>
P_space == <<" ">>
P_a_ci == <<"a", " ", "c", "i">>
P_ty == <<"t", "y">>
P_city == <<" ", "c", "i", "t", "y">>
CleanPieces == {P_a, P_space, P_a_ci, P_ty, P_city, N_Uzbekistan}

RECURSIVE Concat(_, _)
Concat(ps, n) == IF n = 0 THEN <<>> ELSE Concat(ps, n - 1) \o ps[n]

CleanInputs(i) ==
    {Concat(ps, Len(ps)) : ps \in SeqsUpTo(CleanPieces, MaxPieces)}
        \cup (IF i = "pandas" THEN {NaN} ELSE {})

\* The argument of the next call: the input, then the value returned last.
CleanArg == IF cleaned = <<>> THEN district_name ELSE cleaned[Len(cleaned)]

\* `if not name` (stdlib) / `if pd.isna(name)` (pandas)
CleanGuard(i, arg) == IF i = "pandas" THEN arg = NaN ELSE arg = <<>>

InitClean ==
    /\ impl \in {"stdlib", "pandas"}
    /\ district_name \in CleanInputs(impl)
    /\ clean_name = <<>>
    /\ cleaned = <<>>
    /\ NoWorkers
    /\ PopIdle
    /\ first_run = NoRun
    /\ pc = "clean_call"
    /\ idx = 1
    /\ matches = <<>>
    /\ unmatched_main = <<>>
    /\ main_headers = <<>>
    /\ main_data = <<>>
    /\ ref_headers = <<>>
    /\ ref_data = <<>>
    /\ reference_names = <<>>
    /\ threshold = Zero
    /\ best_match = None
    /\ best_score = Zero
    /\ PipelineIdle
    /\ SmIdle

\* `return ""` for an empty (stdlib) or missing (pandas) argument.
CleanEmpty ==
    /\ pc = "clean_call"
    /\ Len(cleaned) < 2
    /\ CleanGuard(impl, CleanArg)
    /\ cleaned' = Append(cleaned, <<>>)
    /\ UNCHANGED <<dataVars, pc, idx, pipeVars, matches, unmatched_main, fbmVars, smVars,
                   clean_name, parVars, popVars, eqVars>>

\* `name = str(name).strip()`
CleanStrip ==
    /\ pc = "clean_call"
    /\ Len(cleaned) < 2
    /\ ~CleanGuard(impl, CleanArg)
    /\ clean_name' = Strip(CleanArg)
    /\ idx' = 1
    /\ pc' = "clean_replace"
    /\ UNCHANGED <<dataVars, pipeVars, matches, unmatched_main, fbmVars, smVars, cleaned,
                   parVars, popVars, eqVars>>

\* One `name = name.replace(token, '')` of the chain.
CleanReplace ==
    /\ pc = "clean_replace"
    /\ idx <= Len(Tokens)
    /\ clean_name' = Replace(clean_name, Tokens[idx])
    /\ idx' = idx + 1
    /\ UNCHANGED <<dataVars, pc, pipeVars, matches, unmatched_main, fbmVars, smVars, cleaned,
                   parVars, popVars, eqVars>>

\* `return name.strip()`
CleanReturn ==
    /\ pc = "clean_replace"
    /\ idx > Len(Tokens)
    /\ cleaned' = Append(cleaned, Strip(clean_name))
    /\ pc' = "clean_call"
    /\ UNCHANGED <<dataVars, idx, pipeVars, matches, unmatched_main, fbmVars, smVars,
                   clean_name, parVars, popVars, eqVars>>

NextClean ==
    \/ CleanEmpty
    \/ CleanStrip
    \/ CleanReplace
    \/ CleanReturn

SpecClean == InitClean /\ [][NextClean]_vars

(***************************************************************************)
(* The matching loop sharded over workers: the distinct source names are   *)
(* partitioned among the workers, each worker runs find_best_match for its *)
(* names one after another over the shared candidate sequence, one loop    *)
(* iteration per step, and appends its result to the shared lists.  The    *)
(* workers' steps interleave in every way.                                 *)
(***************************************************************************)
Workers == 1..MaxWorkers

ParSourcePool == {N_ab_tumani, N_xy, N_Uzbekistan}
ParCandidatePool == {N_ab_shahri, N_Uzbekistan}

\* The distinct source names, in every order.
ParSources == UNION {Orders(S) : S \in (SUBSET ParSourcePool) \ {{}}}

\* The names of srcs that the assignment f gives to worker w, in order.
RECURSIVE Shard(_, _, _, _)
Shard(srcs, f, w, n) ==
    IF n > Len(srcs) THEN <<>>
    ELSE (IF f[n] = w THEN <<srcs[n]>> ELSE <<>>) \o Shard(srcs, f, w, n + 1)

IdleWorker(todo) ==
    [todo |-> todo, pc |-> "idle", district_name |-> <<>>, idx |-> 1,
     best_match |-> None, best_score |-> Zero]

InitPar ==
    /\ impl = "stdlib"
    /\ main_districts \in ParSources
    /\ ref_districts \in SeqsUpTo(ParCandidatePool, MaxCands)
    /\ \E f \in [DOMAIN main_districts -> Workers] :
          workers = [w \in Workers |-> IdleWorker(Shard(main_districts, f, w, 1))]
    /\ pc = "match_loop"
    /\ idx = 1
    /\ matches = <<>>
    /\ unmatched_main = <<>>
    /\ main_headers = <<>>
    /\ main_data = <<>>
    /\ ref_headers = <<>>
    /\ ref_data = <<>>
    /\ call = 0
    /\ unmatched_ref = {}
    /\ district_mapping = EmptyDict
    /\ ref_lookup = EmptyDict
    /\ merged_data = <<>>
    /\ new_headers = <<>>
    /\ files = {}
    /\ stdout = {}
    /\ FbmIdle
    /\ SmIdle
    /\ CleanIdle
    /\ PopIdle
    /\ first_run = NoRun

parFrame ==
    <<dataVars, pc, idx, call, main_districts, ref_districts, unmatched_ref, mergeVars,
      files, stdout, fbmVars, smVars, cleanVars, popVars, eqVars>>

\* Faulty variant: best_match and best_score are not set anew for the next
\* source name; the worker goes on from those of its previous name.
WorkerStartKeepsBest(w) ==
    /\ workers[w].pc = "idle"
    /\ workers[w].todo /= <<>>
    /\ workers' = [workers EXCEPT ![w] =
                      [@ EXCEPT !.todo = Tail(@), !.district_name = Head(workers[w].todo),
                                !.idx = 1, !.pc = "scan"]]
    /\ UNCHANGED <<parFrame, matches, unmatched_main>>

\* `for main_district in main_districts` takes the next name and enters
\* find_best_match: best_match = None, best_score = 0.
WorkerStart(w) ==
    /\ workers[w].pc = "idle"
    /\ workers[w].todo /= <<>>
    /\ workers' = [workers EXCEPT ![w] =
                      [todo |-> Tail(workers[w].todo), pc |-> "scan",
                       district_name |-> Head(workers[w].todo), idx |-> 1,
                       best_match |-> None, best_score |-> Zero]]
    /\ UNCHANGED <<parFrame, matches, unmatched_main>>

\* One iteration of `for ref_name in reference_names`.
WorkerScan(w) ==
    /\ workers[w].pc = "scan"
    /\ workers[w].idx <= Len(ref_districts)
    /\ LET r == BestAfter(clean_district_name(workers[w].district_name),
                          ref_districts[workers[w].idx], DefaultThreshold(impl),
                          workers[w].best_match, workers[w].best_score)
       IN workers' = [workers EXCEPT ![w] =
                         [@ EXCEPT !.best_match = r[1], !.best_score = r[2],
                                   !.idx = workers[w].idx + 1]]
    /\ UNCHANGED <<parFrame, matches, unmatched_main>>

\* `return best_match, best_score`, then `if best_match: matches.append(...)
\* else: unmatched_main.append(...)`.
WorkerRecord(w) ==
    /\ workers[w].pc = "scan"
    /\ workers[w].idx > Len(ref_districts)
    /\ IF Truthy(workers[w].best_match)
       THEN /\ matches' = Append(matches,
                                 MatchEntry(workers[w].district_name,
                                            <<workers[w].best_match, workers[w].best_score>>))
            /\ UNCHANGED unmatched_main
       ELSE /\ unmatched_main' = Append(unmatched_main, workers[w].district_name)
            /\ UNCHANGED matches
    /\ workers' = [workers EXCEPT ![w] = [@ EXCEPT !.pc = "idle"]]
    /\ UNCHANGED parFrame

NextPar ==
    \/ \E w \in Workers : WorkerStart(w)
    \/ \E w \in Workers : WorkerScan(w)
    \/ \E w \in Workers : WorkerRecord(w)

SpecPar == InitPar /\ [][NextPar]_vars

(***************************************************************************)
(* create_population_by_gender_age_csv.py: one output row per non-empty    *)
(* population field of the Year-2025 rows of the merged file               *)
(* (specification SpecPop).                                                *)
(***************************************************************************)
MaxPopRows == 2

AGE_CATEGORIES ==
    << <<"Women under 18", 0, 1>>, <<"Women 18-25", 0, 2>>, <<"Women 26-35", 0, 3>>,
       <<"Women 36-45", 0, 4>>, <<"Women 46-55", 0, 5>>, <<"Women 56+", 0, 6>>,
       <<"Men under 18", 1, 1>>, <<"Men 18-25", 1, 2>>, <<"Men 26-35", 1, 3>>,
       <<"Men 36-45", 1, 4>>, <<"Men 46-55", 1, 5>>, <<"Men 56+", 1, 6>> >>

\* float(s), for s over digits, sign, point, spaces and letters, none of them
\* an exponent or an underscore, and short of the precision of a float:
\* surrounding whitespace is ignored; an optional sign, then inf, nan, or
\* digits with at most one point and at least one digit.  trunc is the
\* integer part of the absolute value.
IsDigit(c) == c \in {"0", "1", "2", "3", "4", "5", "6", "7", "8", "9"}
DigitValue(c) == CHOOSE d \in 0..9 : <<"0", "1", "2", "3", "4", "5", "6", "7", "8", "9">>[d + 1] = c

RECURSIVE DigitsValue(_)
DigitsValue(s) ==
    IF s = <<>> THEN 0
    ELSE 10 * DigitsValue(SubSeq(s, 1, Len(s) - 1)) + DigitValue(s[Len(s)])

RECURSIVE IntegerPart(_)
IntegerPart(s) ==
    IF s = <<>> \/ Head(s) = "." THEN <<>> ELSE <<Head(s)>> \o IntegerPart(Tail(s))

ValueError == [kind |-> "ValueError", negative |-> FALSE, trunc |-> 0]

float(s) ==
    LET t == Strip(s)
        signed == t /= <<>> /\ Head(t) \in {"+", "-"}
        negative == t /= <<>> /\ Head(t) = "-"
        body == IF signed THEN Tail(t) ELSE t
        points == {k \in DOMAIN body : body[k] = "."}
        digits == {k \in DOMAIN body : IsDigit(body[k])}
    IN  IF body \in {<<"i", "n", "f">>, <<"i", "n", "f", "i", "n", "i", "t", "y">>}
        THEN [kind |-> "inf", negative |-> negative, trunc |-> 0]
        ELSE IF body = <<"n", "a", "n">>
        THEN [kind |-> "nan", negative |-> negative, trunc |-> 0]
        ELSE IF /\ digits /= {}
                /\ Cardinality(points) <= 1
                /\ points \cup digits = DOMAIN body
        THEN [kind |-> "finite", negative |-> negative,
              trunc |-> DigitsValue(IntegerPart(body))]
        ELSE ValueError

\* int(x) of a float: truncation towards zero; OverflowError for an
\* infinity, ValueError for a NaN.
PopException == [raised |-> TRUE, value |-> 0]
int(x) ==
    IF x.kind = "finite"
    THEN [raised |-> FALSE, value |-> IF x.negative THEN 0 - x.trunc ELSE x.trunc]
    ELSE PopException

\* int(float(pop_count)): the exception of float() propagates.
IntFloat(pop_count) == int(float(pop_count))

\* csv.DictReader and row.get(col, ''): '' when the header has no such
\* column, None (the reader's restval) when the row ends before the column.
RowGet(headers, row, col) ==
    IF ~Has(headers, col) THEN <<>>
    ELSE IF IndexOf(headers, col) > Len(row) THEN None
    ELSE row[IndexOf(headers, col)]

\* dict.get(key, ''): '' for a key the dict does not have.
DictGetOrEmpty(d, key) == IF key \in DOMAIN d THEN d[key] ELSE <<>>

\* name_en.split()[0]
RECURSIVE UpToSpace(_)
UpToSpace(s) ==
    IF s = <<>> \/ IsSpace(Head(s)) THEN <<>> ELSE <<Head(s)>> \o UpToSpace(Tail(s))
FirstWord(s) == UpToSpace(LStrip(s))

\* build_region_map: the first row of a region_id gives its name.
RECURSIVE build_region_map(_, _, _)
build_region_map(headers, ref_rows, n) ==
    IF n = 0 THEN EmptyDict
    ELSE LET m == build_region_map(headers, ref_rows, n - 1)
             region_id == RowGet(headers, ref_rows[n], "region_id")
         IN  IF region_id \in DOMAIN m THEN m
             ELSE DictPut(m, region_id, FirstWord(RowGet(headers, ref_rows[n], "name_en")))

\* The files of a run.  The merged file has two of the twelve population
\* columns, the first and the last of AGE_CATEGORIES; a row may end before
\* its last column.
S_2025 == <<"2", "0", "2", "5">>
S_2024 == <<"2", "0", "2", "4">>
S_12 == <<"1", "2">>
S_abc == <<"a", "b", "c">>
S_sp5sp == <<" ", "5", " ">>
S_3p9 == <<"3", ".", "9">>
S_inf == <<"i", "n", "f">>
S_m4 == <<"-", "4">>
S_Andijan == <<"A", "n", "d", "i", "j", "a", "n">>
S_Andijan_District == S_Andijan \o <<" ", "D", "i", "s", "t", "r", "i", "c", "t">>
S_Asaka_District == <<"A", "s", "a", "k", "a", " ", "D", "i", "s", "t", "r", "i", "c", "t">>

PopHeader ==
    <<"Year", "district_id", "ref_region_id", "ref_name_en", "Women under 18", "Men 56+">>
PopFirstPool == {S_12, S_abc, <<>>, S_sp5sp}
PopLastPool == {S_3p9, S_inf, S_m4, <<>>}
RegionOf(i) == IF i % 2 = 1 THEN <<"7">> ELSE <<"8">>
PopRowsAt(i) ==
    LET stem(year) == <<year, <<Digit(i)>>, RegionOf(i), <<"D", Digit(i)>> >>
    IN  {stem(S_2024) \o <<S_12, S_3p9>>}
        \cup {stem(S_2025) \o <<a, b>> : a \in PopFirstPool, b \in PopLastPool}
        \cup {stem(S_2025) \o <<a>> : a \in PopFirstPool}
PopTables ==
    UNION {{t \in [1..n -> UNION {PopRowsAt(i) : i \in 1..n}] :
              \A i \in 1..n : t[i] \in PopRowsAt(i)} : n \in 0..MaxPopRows}
PopRefRows ==
    << <<<<"a">>, S_Andijan_District, <<"r">>, <<"1">>, <<"7">> >>,
       <<<<"b">>, S_Asaka_District, <<"r">>, <<"2">>, <<"7">> >> >>

InitPop ==
    /\ merged_file \in {[headers |-> PopHeader, rows |-> t] : t \in PopTables}
    /\ ref_headers = RefHeader
    /\ ref_data = PopRefRows
    /\ pc = "pop_main"
    /\ region_map = EmptyDict
    /\ row_i = 1
    /\ cat_i = 1
    /\ output_rows = <<>>
    /\ next_id = 1
    /\ output_file = None
    /\ impl = "stdlib"
    /\ main_headers = <<>>
    /\ main_data = <<>>
    /\ idx = 1
    /\ matches = <<>>
    /\ unmatched_main = <<>>
    /\ PipelineIdle
    /\ FbmIdle
    /\ SmIdle
    /\ CleanIdle
    /\ NoWorkers
    /\ first_run = NoRun

popFrame ==
    <<dataVars, idx, call, main_districts, ref_districts, matches, unmatched_main,
      unmatched_ref, mergeVars, files, stdout, fbmVars, smVars, cleanVars, parVars,
      merged_file, eqVars>>

\* The row and the category the loops are at.
cur_row == merged_file.rows[row_i]
cur_col == AGE_CATEGORIES[cat_i][1]
gender == AGE_CATEGORIES[cat_i][2]
age_cat == AGE_CATEGORIES[cat_i][3]
PopField == RowGet(merged_file.headers, cur_row, cur_col)
pop_count == Strip(PopField)

\* region_map = build_region_map(ref_file); rows = list(reader);
\* output_rows = []; next_id = 1
PopEnter ==
    /\ pc = "pop_main"
    /\ region_map' = build_region_map(ref_headers, ref_data, Len(ref_data))
    /\ output_rows' = <<>>
    /\ next_id' = 1
    /\ row_i' = 1
    /\ pc' = "pop_row"
    /\ UNCHANGED <<popFrame, cat_i, output_file>>

\* if row.get('Year', '') != '2025': continue
PopSkipRow ==
    /\ pc = "pop_row"
    /\ row_i <= Len(merged_file.rows)
    /\ RowGet(merged_file.headers, cur_row, "Year") /= S_2025
    /\ row_i' = row_i + 1
    /\ UNCHANGED <<popFrame, pc, region_map, cat_i, output_rows, next_id, output_file>>

\* A Year-2025 row: the loop over AGE_CATEGORIES starts.
PopTakeRow ==
    /\ pc = "pop_row"
    /\ row_i <= Len(merged_file.rows)
    /\ RowGet(merged_file.headers, cur_row, "Year") = S_2025
    /\ cat_i' = 1
    /\ pc' = "pop_field"
    /\ UNCHANGED <<popFrame, region_map, row_i, output_rows, next_id, output_file>>

\* row.get(col, '').strip() on a row that ends before col: the value is None,
\* None.strip() raises AttributeError outside the try, and the run ends
\* before the output file is opened.
PopFieldMissing ==
    /\ pc = "pop_field"
    /\ cat_i <= Len(AGE_CATEGORIES)
    /\ PopField = None
    /\ pc' = "pop_error"
    /\ UNCHANGED <<popFrame, region_map, row_i, cat_i, output_rows, next_id, output_file>>

\* `if pop_count and pop_count != ''` is false: nothing for this category.
PopFieldEmpty ==
    /\ pc = "pop_field"
    /\ cat_i <= Len(AGE_CATEGORIES)
    /\ PopField /= None
    /\ pop_count = <<>>
    /\ cat_i' = cat_i + 1
    /\ UNCHANGED <<popFrame, pc, region_map, row_i, output_rows, next_id, output_file>>

\* try: int(float(pop_count)) / except Exception: continue
PopFieldSkip ==
    /\ pc = "pop_field"
    /\ cat_i <= Len(AGE_CATEGORIES)
    /\ PopField /= None
    /\ pop_count /= <<>>
    /\ IntFloat(pop_count) = PopException
    /\ cat_i' = cat_i + 1
    /\ UNCHANGED <<popFrame, pc, region_map, row_i, output_rows, next_id, output_file>>

OutputRow(r, id, g, a, v) ==
    LET region_id == RowGet(merged_file.headers, r, "ref_region_id")
    IN  [id |-> id,
         district_id |-> RowGet(merged_file.headers, r, "district_id"),
         region_id |-> region_id,
         district_name_en |-> RowGet(merged_file.headers, r, "ref_name_en"),
         region_name_en |-> DictGetOrEmpty(region_map, region_id),
         gender_category |-> g,
         age_category |-> a,
         population_count |-> v]

\* output_rows.append({...}); next_id += 1
PopFieldAppend ==
    /\ pc = "pop_field"
    /\ cat_i <= Len(AGE_CATEGORIES)
    /\ PopField /= None
    /\ pop_count /= <<>>
    /\ IntFloat(pop_count) /= PopException
    /\ output_rows' = Append(output_rows,
                             OutputRow(cur_row, next_id, gender, age_cat,
                                       IntFloat(pop_count).value))
    /\ next_id' = next_id + 1
    /\ cat_i' = cat_i + 1
    /\ UNCHANGED <<popFrame, pc, region_map, row_i, output_file>>

\* AGE_CATEGORIES is exhausted: on to the next row.
PopRowEnd ==
    /\ pc = "pop_field"
    /\ cat_i > Len(AGE_CATEGORIES)
    /\ row_i' = row_i + 1
    /\ pc' = "pop_row"
    /\ UNCHANGED <<popFrame, region_map, cat_i, output_rows, next_id, output_file>>

\* writer.writeheader(); writer.writerows(output_rows)
PopWrite ==
    /\ pc = "pop_row"
    /\ row_i > Len(merged_file.rows)
    /\ output_file' = output_rows
    /\ pc' = "pop_done"
    /\ UNCHANGED <<popFrame, region_map, row_i, cat_i, output_rows, next_id>>

NextPop ==
    \/ PopEnter
    \/ PopSkipRow
    \/ PopTakeRow
    \/ PopFieldMissing
    \/ PopFieldEmpty
    \/ PopFieldSkip
    \/ PopFieldAppend
    \/ PopRowEnd
    \/ PopWrite

SpecPop == InitPop /\ [][NextPop]_vars

(***************************************************************************)
(* The two scripts run one after the other on the same two files: the      *)
(* stdlib script first, then the pandas script (specification SpecEq).     *)
(***************************************************************************)
EqMainNamePool == {N_ab_tumani, N_Uzbekistan, N_xy}
EqRefNamePool == {N_ab_shahri, N_ab_tumani, <<>>}
EqMainTables ==
    UNION {{[r \in 1..n |-> MainRow(f[r], r)] : f \in [1..n -> EqMainNamePool]}
           : n \in 1..MaxMainRows}
EqRefTables ==
    UNION {{[r \in 1..n |-> RefRow(f[r], r)] : f \in [1..n -> EqRefNamePool]}
           : n \in 1..MaxRefRows}

InitEq ==
    /\ impl = "stdlib"
    /\ main_headers = MainHeader
    /\ main_data \in EqMainTables
    /\ ref_headers = RefHeader
    /\ ref_data \in EqRefTables
    /\ pc = "main"
    /\ idx = 1
    /\ matches = <<>>
    /\ unmatched_main = <<>>
    /\ PipelineIdle
    /\ FbmIdle
    /\ SmIdle
    /\ CleanIdle
    /\ NoWorkers
    /\ PopIdle
    /\ first_run = NoRun

\* The reference rows as read_csv holds them: the empty name_uz is NaN.
ReadByPandas(rows) ==
    [n \in DOMAIN rows |->
        [c \in DOMAIN rows[n] |->
            IF c = ref_name_uz_idx THEN ReadCell("pandas", rows[n][c]) ELSE rows[n][c]]]

\* The stdlib script has ended; the pandas script is started on the same files.
RunPandas ==
    /\ impl = "stdlib"
    /\ pc \in {"done", "aborted", "error"}
    /\ first_run = NoRun
    /\ first_run' = [pc |-> pc, matches |-> matches, merged_data |-> merged_data]
    /\ impl' = "pandas"
    /\ ref_data' = ReadByPandas(ref_data)
    /\ pc' = "main"
    /\ idx' = 1
    /\ matches' = <<>>
    /\ unmatched_main' = <<>>
    /\ call' = 0
    /\ main_districts' = <<>>
    /\ ref_districts' = <<>>
    /\ unmatched_ref' = {}
    /\ district_mapping' = EmptyDict
    /\ ref_lookup' = EmptyDict
    /\ merged_data' = <<>>
    /\ new_headers' = <<>>
    /\ files' = {}
    /\ stdout' = {}
    /\ UNCHANGED <<main_headers, main_data, ref_headers, fbmVars, smVars, cleanVars,
                   parVars, popVars>>

NextEq ==
    \/ AnalyzeEnter
    \/ MatchDistrict
    \/ AnalyzeReturn
    \/ NoMatches
    \/ BuildMapping
    \/ MergeRow
    \/ SaveMerged
    \/ PandasMerge
    \/ PandasMergeError
    \/ RunPandas

SpecEq == InitEq /\ [][NextEq]_vars

(***************************************************************************)
(* Properties of the merged dataset (specification Spec).                  *)
(***************************************************************************)
\* A cell as the output file holds it: to_csv writes NaN as the empty string.
CsvCell(v) == IF v = NaN THEN Empty ELSE v

\* The five canonical columns of a merged row, and its primary fields.
Canonical(row) == [k \in 1..5 |-> CsvCell(row[Len(row) - 5 + k])]
PrimaryFields(row) == SubSeq(row, 1, 2)
FiveEmpty == <<Empty, Empty, Empty, Empty, Empty>>

Assigned(name) == \E k \in DOMAIN matches : matches[k].main_district = name

\* C1: the merged dataset has exactly as many rows as the primary dataset, in
\* both implementations and also when a raw name occurs in several reference
\* rows.
C1_RowCountPreserved ==
    pc = "done" => Len(merged_data) = Len(main_data)

\* C1, the stdlib row loop alone: one merged row per primary row processed.
C1_StdlibRowCount ==
    impl = "stdlib" /\ pc \in {"merge_loop", "done"} => Len(merged_data) = idx - 1

\* C2: in every merged row of the stdlib row loop the five canonical columns
\* are all empty, or they are the reference name r assigned to the row's source
\* name by the matching step followed by the four attributes the reference
\* index stores under r.
C2_CanonicalAllOrAssigned ==
    impl = "stdlib" =>
        \A i \in DOMAIN merged_data :
            LET src == merged_data[i][main_klassifikator_idx]
                can == Canonical(merged_data[i])
            IN \/ can = FiveEmpty
               \/ \E k \in DOMAIN matches :
                     LET r == matches[k].reference_district
                     IN /\ matches[k].main_district = src
                        /\ r \in DOMAIN ref_lookup
                        /\ can = <<r, ref_lookup[r].name_en, ref_lookup[r].name_ru,
                                   ref_lookup[r].code, ref_lookup[r].region_id>>

\* C2 witness: a finished stdlib merge with a row that carries canonical
\* values, a row that carries none, and a reference name that occurs twice.
C2_Witness ==
    /\ impl = "stdlib"
    /\ pc = "done"
    /\ \E i \in DOMAIN merged_data : Canonical(merged_data[i]) /= FiveEmpty
    /\ \E i \in DOMAIN merged_data : Canonical(merged_data[i]) = FiveEmpty
    /\ Len(ref_data) = 2

\* C3: every primary row whose source name has no assignment appears in the
\* merged output, and with all five canonical columns empty.
C3_UnmatchedRowsEmpty ==
    pc = "done" =>
        \A j \in DOMAIN main_data :
            ~Assigned(main_data[j][main_klassifikator_idx]) =>
                /\ \E i \in DOMAIN merged_data : PrimaryFields(merged_data[i]) = main_data[j]
                /\ \A i \in DOMAIN merged_data :
                      PrimaryFields(merged_data[i]) = main_data[j]
                          => Canonical(merged_data[i]) = FiveEmpty

\* C3, the stdlib row loop alone.
C3_StdlibUnmatchedRowsEmpty ==
    impl = "stdlib" => C3_UnmatchedRowsEmpty

(***************************************************************************)
(* Properties of find_best_match (specification SpecMatch).                *)
(***************************************************************************)
Candidates == {reference_names[k] : k \in DOMAIN reference_names}

\* The score of the k-th candidate, and the normalized form find_best_match
\* compares: the lower-cased output of clean_district_name.
ScoreOf(k) == similarity(clean_district_name(district_name), reference_names[k])
Form(name) == Lower(clean_district_name(name))

\* The k-th candidate scores at least as high as every candidate.
AttainsMax(k) == \A n \in DOMAIN reference_names : ScoreGE(ScoreOf(k), ScoreOf(n))

\* The maximum score is at least t / is positive (false with no candidate).
MaxAtLeast(t) == \E k \in DOMAIN reference_names : AttainsMax(k) /\ ScoreGE(ScoreOf(k), t)
MaxPositive == \E k \in DOMAIN reference_names : ScoreGT(ScoreOf(k), Zero)

Returned == pc \in {"fbm_returned", "recorded"}

\* C4: find_best_match never holds or returns a candidate whose score to the
\* source is below the threshold, and every entry of the matches list has
\* match_score >= threshold and a reference_district among the candidates.
C4_NoMatchBelowThreshold ==
    /\ best_match /= None =>
          /\ best_match \in Candidates
          /\ ScoreGE(best_score, threshold)
          /\ ScoreGE(similarity(clean_district_name(district_name), best_match), threshold)
    /\ \A k \in DOMAIN matches :
          /\ matches[k].reference_district \in Candidates
          /\ ScoreGE(matches[k].match_score, threshold)

\* C4 witness: a recorded match whose score is below 1.0 under a positive
\* threshold, with another candidate that stayed below the threshold.
C4_Witness ==
    /\ pc = "recorded"
    /\ Len(matches) = 1
    /\ ScoreGT(threshold, Zero)
    /\ ScoreGT(One, matches[1].match_score)
    /\ \E k \in DOMAIN reference_names :
          ScoreGT(ScoreOf(k), Zero) /\ ScoreGT(threshold, ScoreOf(k))

\* C5 as stated: the source is assigned iff the maximum score over the
\* candidates is >= threshold, the chosen candidate attains the maximum and
\* the reported score is the maximum.
C5_AssignedIffMaxAtLeastThreshold ==
    Returned =>
        /\ (best_match /= None) <=> MaxAtLeast(threshold)
        /\ best_match /= None =>
              \E k \in DOMAIN reference_names :
                  /\ reference_names[k] = best_match
                  /\ AttainsMax(k)
                  /\ ScoreEQ(best_score, ScoreOf(k))

\* C5 amended: the source is assigned iff the maximum score over the
\* candidates is >= threshold and greater than 0; when it is assigned the
\* chosen candidate attains the maximum and the reported score is the maximum.
C5_AssignedIffMaxPositiveAtLeastThreshold ==
    Returned =>
        /\ (best_match /= None) <=> (MaxAtLeast(threshold) /\ MaxPositive)
        /\ best_match /= None =>
              \E k \in DOMAIN reference_names :
                  /\ reference_names[k] = best_match
                  /\ AttainsMax(k)
                  /\ ScoreEQ(best_score, ScoreOf(k))

\* C5 witness: the scan has returned the second of two candidates, which
\* scores strictly higher than the first, both reaching the threshold.
C5_Witness ==
    /\ Returned
    /\ Len(reference_names) = 2
    /\ best_match = reference_names[2]
    /\ ScoreGT(ScoreOf(2), ScoreOf(1))
    /\ ScoreGE(ScoreOf(1), threshold)
    /\ ScoreGT(ScoreOf(1), Zero)

\* First position whose candidate attains the maximum score.
FirstMax == SetMin({k \in DOMAIN reference_names : AttainsMax(k)})

\* C6: when several candidates tie for the best score, the one earliest in the
\* candidate sequence is selected.
C6_FirstOfTiesWins ==
    Returned /\ best_match /= None => best_match = reference_names[FirstMax]

\* C6 witness: two different candidates tie for the best score and the first
\* has been returned.
C6_Witness ==
    /\ Returned
    /\ Len(reference_names) = 2
    /\ reference_names[1] /= reference_names[2]
    /\ ScoreEQ(ScoreOf(1), ScoreOf(2))
    /\ best_match = reference_names[1]

\* C7 as stated: with threshold 1.0 the source is assigned to a candidate iff
\* their lower-cased cleaned forms are equal.
C7_AssignedIffFormsEqual ==
    Returned /\ threshold = One =>
        \A k \in DOMAIN reference_names :
            (best_match = reference_names[k]) <=> (Form(district_name) = Form(reference_names[k]))

\* First position whose candidate has the form of the source.
FirstEqualForm ==
    SetMin({k \in DOMAIN reference_names : Form(reference_names[k]) = Form(district_name)})

\* C7 amended: with threshold 1.0 the source is assigned to a candidate iff
\* their lower-cased cleaned forms are equal (also when both are empty) and
\* the candidate is the first in the sequence with that form.
C7_AssignedIffFirstEqualForm ==
    Returned /\ threshold = One =>
        \A k \in DOMAIN reference_names :
            (best_match = reference_names[k])
                <=> /\ Form(district_name) = Form(reference_names[k])
                    /\ reference_names[k] = reference_names[FirstEqualForm]

\* C7 witness: threshold 1.0, and the source has been assigned to a candidate
\* whose cleaned name differs from the cleaned source in letter case only.
C7_Witness ==
    /\ Returned
    /\ threshold = One
    /\ best_match /= None
    /\ best_match /= district_name
    /\ Form(district_name) /= <<>>
    /\ clean_district_name(district_name) /= clean_district_name(best_match)

\* C10: a name scores 1.0 against itself, so a non-empty source name that
\* occurs verbatim among the candidates is returned a candidate, with score
\* 1.0, at every threshold <= 1.0.
C10_VerbatimCandidateAssigned ==
    Returned /\ district_name /= <<>> /\ district_name \in Candidates =>
        /\ ScoreEQ(similarity(clean_district_name(district_name), district_name), One)
        /\ best_match /= None
        /\ ScoreEQ(best_score, One)

\* C10 witness: a non-empty source that cleans to the empty string occurs among
\* the candidates and has been returned itself.
C10_Witness ==
    /\ Returned
    /\ district_name /= <<>>
    /\ clean_district_name(district_name) = <<>>
    /\ best_match = district_name
    /\ ScoreGT(threshold, Zero)

C9_RatioInUnitInterval ==
    LET M == SumSizes(matching_blocks, Len(matching_blocks))
    IN /\ 0 <= 2 * M
       /\ 2 * M <= Len(sm_a) + Len(sm_b)
       /\ score /= NoScore => ScoreGE(score, Zero) /\ ScoreGE(One, score)

\* C9 witness: a ratio strictly between 0 and 1 made of more than one block.
C9_Witness ==
    /\ pc = "sm_done"
    /\ Len(matching_blocks) >= 2
    /\ ScoreGT(score, Zero)
    /\ ScoreGT(One, score)

(***************************************************************************)
(* Names that normalize to the empty string (specification SpecMatch).     *)
(***************************************************************************)
\* C11: when the source and a candidate both normalize to the empty string
\* their score is 0.0 and the source is not assigned to that candidate at any
\* positive threshold.
C11_EmptyFormsScoreZero ==
    Returned =>
        \A k \in DOMAIN reference_names :
            Form(district_name) = <<>> /\ Form(reference_names[k]) = <<>> =>
                /\ ScoreEQ(ScoreOf(k), Zero)
                /\ ScoreGT(threshold, Zero) => best_match /= reference_names[k]

\* C11, what the code does: two empty forms score 1.0, and the first candidate
\* with an empty form is returned for a source with an empty form.
C11_EmptyFormsScoreOne ==
    Returned =>
        \A k \in DOMAIN reference_names :
            Form(district_name) = <<>> /\ Form(reference_names[k]) = <<>> =>
                /\ ScoreEQ(ScoreOf(k), One)
                /\ best_match = reference_names[FirstEqualForm]
                /\ ScoreEQ(best_score, One)

\* C11 case reached: a source made of a country token only has been recorded
\* as matched to a different candidate made of another country token only.
C11_EmptyFormsMatched ==
    /\ pc = "recorded"
    /\ Len(matches) = 1
    /\ Form(district_name) = <<>>
    /\ matches[1].reference_district /= district_name
    /\ Form(matches[1].reference_district) = <<>>
    /\ ScoreGT(threshold, Zero)

(***************************************************************************)
(* Properties of clean_district_name (specification SpecClean).            *)
(***************************************************************************)
\* The stepwise chain returns what the operator clean_district_name computes.
CleanStepsAgree ==
    cleaned /= <<>> => cleaned[1] = clean_district_name(district_name)

\* C12: clean_district_name is idempotent: applied to its own result it
\* returns that result again, for every input string.
C12_CleanIdempotent ==
    Len(cleaned) = 2 => cleaned[2] = cleaned[1]

\* C12 case reached: the second application has removed a token that the
\* removals of the first application had put together.
C12_TokenReassembled ==
    /\ Len(cleaned) = 2
    /\ cleaned[1] = P_a \o P_city
    /\ cleaned[2] = P_a

(***************************************************************************)
(* Properties of the reference index and of the merge (specification Spec).*)
(***************************************************************************)
\* The raw names of the reference rows, and the last reference row that has
\* the raw name r.
RefNames == {ref_data[n][ref_name_uz_idx] : n \in DOMAIN ref_data}
LastRefRow(r) == ref_data[SetMax({n \in DOMAIN ref_data : ref_data[n][ref_name_uz_idx] = r})]
AttributesOf(row) ==
    [name_en |-> row[ref_name_en_idx], name_ru |-> row[ref_name_ru_idx],
     code |-> row[ref_code_idx], region_id |-> row[ref_region_id_idx]]

\* The stdlib index has been built.
IndexBuilt == impl = "stdlib" /\ pc \in {"merge_loop", "done"}

\* C13, the stdlib index alone: ref_lookup has exactly one entry per distinct
\* raw name, holding the attributes of the last reference row with that name.
C13_StdlibIndexLastWriteWins ==
    IndexBuilt =>
        /\ DOMAIN ref_lookup = RefNames
        /\ \A r \in RefNames : ref_lookup[r] = AttributesOf(LastRefRow(r))

\* C13: the reference data the merge reads has one entry per distinct raw
\* name and last-write-wins: the index of the stdlib script is as above, and in
\* both scripts a merged row that carries the raw name r carries the
\* attributes of the last reference row named r.
C13_LastWriteWins ==
    /\ C13_StdlibIndexLastWriteWins
    /\ pc = "done" =>
          \A i \in DOMAIN merged_data :
              LET can == Canonical(merged_data[i])
              IN can[1] /= Empty =>
                    LET last == LastRefRow(can[1])
                    IN can = <<can[1], CsvCell(last[ref_name_en_idx]),
                               CsvCell(last[ref_name_ru_idx]), CsvCell(last[ref_code_idx]),
                               CsvCell(last[ref_region_id_idx])>>

\* C13 case reached: the stdlib index built from two reference rows that share
\* their raw name, and a merged row carrying that name.
C13_DuplicateNameIndexed ==
    /\ impl = "stdlib"
    /\ pc = "done"
    /\ Len(ref_data) = 2
    /\ ref_data[1][ref_name_uz_idx] = ref_data[2][ref_name_uz_idx]
    /\ \E i \in DOMAIN merged_data :
          Canonical(merged_data[i])[1] = ref_data[1][ref_name_uz_idx]

\* C14: in the stdlib merge any two merged rows whose primary rows share the
\* source name carry identical values in all five canonical columns.
C14_SameNameSameCanonical ==
    impl = "stdlib" =>
        \A i, j \in DOMAIN merged_data :
            merged_data[i][main_klassifikator_idx] = merged_data[j][main_klassifikator_idx]
                => Canonical(merged_data[i]) = Canonical(merged_data[j])

\* C14 witness: a finished stdlib merge of two primary rows that differ but
\* share their source name, which is assigned.
C14_Witness ==
    /\ impl = "stdlib"
    /\ pc = "done"
    /\ Len(merged_data) = 2
    /\ main_data[1] /= main_data[2]
    /\ main_data[1][main_klassifikator_idx] = main_data[2][main_klassifikator_idx]
    /\ Canonical(merged_data[2]) /= FiveEmpty

\* C15: the stdlib merge is a pure extension of the primary data: the i-th
\* merged row is the i-th primary row, unchanged, followed by exactly five
\* fields, which are all empty or the matched raw name, English name, Russian
\* name, code and region id of a reference row in that order; when the merge is
\* done no row is missing and the header is the primary header followed by the
\* five column names.
C15_PureExtension ==
    impl = "stdlib" =>
        /\ Len(merged_data) <= Len(main_data)
        /\ \A i \in DOMAIN merged_data :
              /\ Len(merged_data[i]) = Len(main_data[i]) + 5
              /\ SubSeq(merged_data[i], 1, Len(main_data[i])) = main_data[i]
              /\ \/ Canonical(merged_data[i]) = FiveEmpty
                 \/ \E n \in DOMAIN ref_data :
                       Canonical(merged_data[i]) =
                           <<ref_data[n][IndexOf(ref_headers, "name_uz")],
                             ref_data[n][IndexOf(ref_headers, "name_en")],
                             ref_data[n][IndexOf(ref_headers, "name_ru")],
                             ref_data[n][IndexOf(ref_headers, "code")],
                             ref_data[n][IndexOf(ref_headers, "region_id")]>>
        /\ pc = "done" =>
              /\ Len(merged_data) = Len(main_data)
              /\ new_headers = main_headers \o
                    <<"ref_name_uz", "ref_name_en", "ref_name_ru", "ref_code", "ref_region_id">>

\* C15 witness: a finished stdlib merge of two different primary rows, one
\* extended with reference values and one with empty fields.
C15_Witness ==
    /\ impl = "stdlib"
    /\ pc = "done"
    /\ Len(merged_data) = 2
    /\ main_data[1] /= main_data[2]
    /\ \E i \in DOMAIN merged_data : Canonical(merged_data[i]) /= FiveEmpty
    /\ \E i \in DOMAIN merged_data : Canonical(merged_data[i]) = FiveEmpty

\* C15, columns in another order: a finished stdlib merge of files whose
\* columns are in reverse order, with a row extended with reference values.
C15_ReversedColumnsMerged ==
    /\ impl = "stdlib"
    /\ pc = "done"
    /\ main_headers = Reversed(MainHeader)
    /\ ref_headers = Reversed(RefHeader)
    /\ Canonical(merged_data[1]) /= FiveEmpty

\* create_merged_dataset has produced rows, a header or the merged file.
MergeProduced ==
    \/ merged_data /= <<>>
    \/ new_headers /= <<>>
    \/ "merged_district_data.csv" \in files

\* C16: when analyze_district_matching returns zero matches to
\* create_merged_dataset, the merge is skipped: the next step ends the
\* function with the diagnostic printed, and at that end no merged row, header
\* or file exists; the merge steps run, and a merged dataset exists, only
\* with at least one match, and a finished merged dataset has a row whose
\* canonical columns are not all empty.
C16_EmptyMatchSetSkipsMerge ==
    /\ [][pc = "check_matches" /\ matches = <<>> => pc' = "aborted"]_vars
    /\ [](pc = "aborted" => matches = <<>> /\ NoMatchesFound \in stdout /\ ~MergeProduced)
    /\ [](pc \in {"merge_loop", "pandas_merge", "done"} \/ MergeProduced => matches /= <<>>)
    /\ [](pc = "done" => \E i \in DOMAIN merged_data : Canonical(merged_data[i]) /= FiveEmpty)

\* C16 witness: create_merged_dataset has ended on the diagnostic after the
\* second analysis left both of two source names unmatched.
C16_Witness ==
    /\ pc = "aborted"
    /\ call = 2
    /\ Len(unmatched_main) = 2
    /\ NoMatchesFound \in stdout

(***************************************************************************)
(* Properties of the run as a whole (specification Spec).                  *)
(***************************************************************************)
\* A column the scripts depend on is absent from its file.
MissingColumn ==
    \/ ~Has(main_headers, "Klassifikator")
    \/ \E col \in LookupColumns : ~Has(ref_headers, col)

\* C17: when a column the logic depends on is absent, the run ends on an
\* error (it never ends normally) and no matching result file or merged
\* dataset file is ever written.
C17_MissingColumnAbortsBeforeOutput ==
    MissingColumn =>
        /\ files = {}
        /\ pc \notin {"aborted", "done"}

\* C17, the two columns analyze_district_matching looks up first: with
\* Klassifikator or name_uz absent the first step of the run is the error.
C17_KeyColumnAbortsAtOnce ==
    ~Has(main_headers, "Klassifikator") \/ ~Has(ref_headers, "name_uz") =>
        /\ files = {}
        /\ pc \in {"main", "error"}

\* C17 case reached: the run has ended on the error for an absent reference
\* column after the matching result file was written.
C17_ErrorAfterResultsFile ==
    /\ MissingColumn
    /\ pc = "error"
    /\ "district_matching_results.csv" \in files

\* C17 case reached: the run has ended normally, on the no-matches
\* diagnostic, although a reference column is absent.
C17_MissingColumnUnnoticed ==
    /\ MissingColumn
    /\ pc = "aborted"

\* The Samarqand example is running under threshold 0.8.
Scenario2 ==
    /\ DefaultThreshold(impl) = <<8, 10>>
    /\ main_headers = MainHeader
    /\ ref_headers = RefHeader
    /\ \E j \in DOMAIN main_data : main_data[j][main_klassifikator_idx] = N_Samarqand_viloyati
    /\ Column(ref_data, ref_name_uz_idx) = <<N_Samarqand_shahri>>

\* The score of the source of the example against its one candidate.
Scenario2Score == similarity(clean_district_name(N_Samarqand_viloyati), N_Samarqand_shahri)

\* find_best_match has been run for the source of the example.
Scenario2Scanned ==
    \/ Assigned(N_Samarqand_viloyati)
    \/ \E k \in DOMAIN unmatched_main : unmatched_main[k] = N_Samarqand_viloyati

\* The outcome of the example: the forms compared are "Samarqand viloyati" and
\* "Samarqand", the score is below 0.8, the source is recorded as unmatched
\* once the analysis has returned, and in a finished merge every row of that
\* source has five empty canonical fields.
Scenario2Outcome ==
    /\ clean_district_name(N_Samarqand_viloyati) = N_Samarqand_viloyati
    /\ clean_district_name(N_Samarqand_shahri) = N_Samarqand
    /\ ScoreGT(<<8, 10>>, Scenario2Score)
    /\ pc \in {"create", "check_matches", "pandas_merge", "done", "aborted"} =>
          /\ ~Assigned(N_Samarqand_viloyati)
          /\ \E k \in DOMAIN unmatched_main : unmatched_main[k] = N_Samarqand_viloyati
    /\ pc = "done" =>
          \A i \in DOMAIN merged_data :
              merged_data[i][main_klassifikator_idx] = N_Samarqand_viloyati
                  => Canonical(merged_data[i]) = FiveEmpty

\* C18 as stated: in the example the score is approximately 0.69 (0.69 to two
\* decimals), and the outcome is as above.
C18_Scenario2ScoreNear069 ==
    Scenario2 /\ Scenario2Scanned =>
        /\ ScoreGE(Scenario2Score, <<685, 1000>>)
        /\ ScoreGT(<<695, 1000>>, Scenario2Score)
        /\ Scenario2Outcome

\* C18 amended: in the example the score is 18/27 (2 * 9 matched characters
\* over 18 + 9), approximately 0.67, and the outcome is as above.
C18_Scenario2ScoreTwoThirds ==
    Scenario2 /\ Scenario2Scanned =>
        /\ ScoreEQ(Scenario2Score, <<18, 27>>)
        /\ Scenario2Outcome

\* C18 witness: the merge of the example has finished with a row of the
\* unmatched source, another source having matched the candidate.
C18_Witness ==
    /\ Scenario2
    /\ pc = "done"
    /\ Len(matches) = 1
    /\ \E i \in DOMAIN merged_data :
          /\ merged_data[i][main_klassifikator_idx] = N_Samarqand_viloyati
          /\ Canonical(merged_data[i]) = FiveEmpty
    /\ \E i \in DOMAIN merged_data : Canonical(merged_data[i]) /= FiveEmpty

\* analyze_district_matching has returned its report.
AnalysisReported ==
    pc \in {"create", "check_matches", "merge_loop", "pandas_merge", "done", "aborted"}

\* C20: within one run the match assignment is computed exactly once: after
\* the analysis step of __main__ has reported it, analyze_district_matching is
\* not entered again and the assignment is not altered, so the merge uses the
\* assignment the analysis step reported.
C20_AssignmentComputedOnce ==
    [][pc = "create" => call' = call /\ matches' = matches]_vars

\* C20, what the code does: each of the two analyses ends with the same
\* assignment, the one find_best_match gives for every distinct source name.
C20_BothAnalysesAgree ==
    AnalysisReported =>
        \A k \in DOMAIN main_districts :
            LET s == main_districts[k]
                r == find_best_match(s, ref_districts, DefaultThreshold(impl))
            IN /\ Truthy(r[1]) <=> Assigned(s)
               /\ \A m \in DOMAIN matches :
                     matches[m].main_district = s =>
                         <<matches[m].reference_district, matches[m].match_score>> = r

\* C20 case reached: create_merged_dataset has entered
\* analyze_district_matching again, and the assignment that the first analysis
\* reported and saved is being computed anew.
C20_AssignmentRecomputed ==
    /\ call = 2
    /\ pc = "match_loop"
    /\ matches = <<>>
    /\ "district_matching_results.csv" \in files

(***************************************************************************)
(* Properties of the sharded matching loop (specification SpecPar).        *)
(***************************************************************************)
\* What the sequential loop records for the source name s.
SequentialResult(s) == find_best_match(s, ref_districts, DefaultThreshold(impl))

\* The source-to-candidate mapping, with scores, of the sequential loop.
SequentialMapping ==
    [s \in {main_districts[k] : k \in DOMAIN main_districts}
              \cap {x \in ParSourcePool : Truthy(SequentialResult(x)[1])}
        |-> SequentialResult(s)]

\* The results the workers have appended, combined by source-name key.
CombinedMapping ==
    [s \in {matches[k].main_district : k \in DOMAIN matches}
        |-> LET k == CHOOSE n \in DOMAIN matches : matches[n].main_district = s
            IN <<matches[k].reference_district, matches[k].match_score>>]

AllWorkersDone == \A w \in Workers : workers[w].pc = "idle" /\ workers[w].todo = <<>>

\* C19: for every partition of the distinct source names among the workers
\* and every interleaving of their steps, each result a worker appends is the
\* sequential loop's result for that source name, each name is recorded once,
\* and when all workers are done the mapping combined by source-name key (with
\* scores) and the unmatched names are those of the sequential loop.
C19_ShardedEqualsSequential ==
    /\ \A k \in DOMAIN matches :
          /\ <<matches[k].reference_district, matches[k].match_score>>
                = SequentialResult(matches[k].main_district)
          /\ \A n \in DOMAIN matches : matches[n].main_district = matches[k].main_district => n = k
    /\ \A k \in DOMAIN unmatched_main : ~Truthy(SequentialResult(unmatched_main[k])[1])
    /\ AllWorkersDone =>
          /\ CombinedMapping = SequentialMapping
          /\ Len(matches) + Len(unmatched_main) = Len(main_districts)

\* C19 witness: all workers are done, two of them have each matched a name,
\* and the second name of the sequential order was appended first.
C19_Witness ==
    /\ AllWorkersDone
    /\ Len(matches) = 2
    /\ \E i, j \in DOMAIN main_districts :
          /\ i < j
          /\ matches[1].main_district = main_districts[j]
          /\ matches[2].main_district = main_districts[i]
    /\ unmatched_main /= <<>>

(***************************************************************************)
(* Malformed population values (specification SpecPop).                    *)
(***************************************************************************)
\* The (row, category) pairs that are to give an output row: Year-2025 rows,
\* fields that are present, not blank, and that int(float(...)) accepts.
PopEntries ==
    {e \in (DOMAIN merged_file.rows) \X (DOMAIN AGE_CATEGORIES) :
        LET r == merged_file.rows[e[1]]
            f == RowGet(merged_file.headers, r, AGE_CATEGORIES[e[2]][1])
        IN  /\ RowGet(merged_file.headers, r, "Year") = S_2025
            /\ f /= None
            /\ Strip(f) /= <<>>
            /\ ~IntFloat(Strip(f)).raised}

\* The output rows of the pair e: the row's district and the category.
PopRowsOf(e) ==
    {k \in DOMAIN output_file :
        /\ output_file[k].district_id = merged_file.rows[e[1]][2]
        /\ output_file[k].gender_category = AGE_CATEGORIES[e[2]][2]
        /\ output_file[k].age_category = AGE_CATEGORIES[e[2]][3]}

\* Once the output is written: one row for each such pair and no other row,
\* with the ids 1..n in order.
PopOutputComplete ==
    pc = "pop_done" =>
        /\ \A k \in DOMAIN output_file : output_file[k].id = k
        /\ Len(output_file) = Cardinality(PopEntries)
        /\ \A e \in PopEntries : Cardinality(PopRowsOf(e)) = 1

\* C21: a population field that does not parse as a number is skipped and the
\* run is not aborted: the run never ends on an exception, and the output
\* holds exactly one row for every other non-blank parseable field of every
\* Year-2025 row, with the ids 1..n and no gap.
C21_MalformedValueSkipped ==
    /\ pc /= "pop_error"
    /\ PopOutputComplete

\* C21: a run that ended on the exception of a field its row does not have,
\* after a parseable field of that row had been collected, with nothing written.
C21_AbortedOnShortRow ==
    /\ pc = "pop_error"
    /\ output_rows /= <<>>
    /\ output_file = None

(***************************************************************************)
(* The reference entity with the empty name (specification Spec).          *)
(***************************************************************************)
\* The empty name_uz cell as the script holds it: '' from csv.reader, NaN
\* from read_csv.
EmptyName == IF impl = "pandas" THEN NaN ELSE Empty

\* find_best_match returns the entity with the empty name for this source
\* name (its score is then at least the threshold).
BestIsEmptyName(name) ==
    /\ \E k \in DOMAIN ref_districts : ref_districts[k] = EmptyName
    /\ find_best_match(name, ref_districts, DefaultThreshold(impl))[1] = EmptyName

NonEmptyString(v) == v /= Empty /\ v /= NaN /\ v /= None

\* C23: the reference entity whose raw name is empty is never assigned: every
\* reference_district of the matches list is a non-empty string, a source
\* name for which find_best_match returns the empty-named entity is recorded
\* as unmatched, and its merged rows have five empty canonical columns.
C23_EmptyNameNeverAssigned ==
    /\ \A k \in DOMAIN matches : NonEmptyString(matches[k].reference_district)
    /\ \A k \in 1..(idx - 1) :
          pc = "match_loop" /\ BestIsEmptyName(main_districts[k])
              => \E u \in DOMAIN unmatched_main : unmatched_main[u] = main_districts[k]
    /\ pc = "done" =>
          \A i \in DOMAIN merged_data :
              BestIsEmptyName(merged_data[i][main_klassifikator_idx])
                  => Canonical(merged_data[i]) = FiveEmpty

\* C23, the stdlib script alone.
C23_StdlibEmptyNameNeverAssigned ==
    impl = "stdlib" => C23_EmptyNameNeverAssigned

\* C23: a finished stdlib merge with a source name whose best candidate was
\* the empty-named entity.
C23_StdlibEmptyNameDropped ==
    /\ impl = "stdlib"
    /\ pc = "done"
    /\ \E i \in DOMAIN merged_data : BestIsEmptyName(merged_data[i][main_klassifikator_idx])

\* C23: the pandas script has recorded a match whose reference_district is
\* the missing value.
C23_PandasMissingNameAssigned ==
    /\ impl = "pandas"
    /\ \E k \in DOMAIN matches : matches[k].reference_district = NaN

(***************************************************************************)
(* The report of analyze_district_matching partitions its inputs           *)
(* (specification Spec).                                                   *)
(***************************************************************************)
SourceNames == {main_districts[k] : k \in DOMAIN main_districts}
MatchedNames == {matches[k].reference_district : k \in DOMAIN matches}
MatchesOf(name) == {k \in DOMAIN matches : matches[k].main_district = name}
UnmatchedOf(name) == {k \in DOMAIN unmatched_main : unmatched_main[k] = name}

\* Every distinct source name is in matches at most once or in unmatched_main,
\* and not in both.
SourceNamesPartitioned ==
    AnalysisReported =>
        /\ \A j \in DOMAIN main_data :
              main_data[j][main_klassifikator_idx] \in SourceNames
        /\ \A name \in SourceNames :
              Cardinality(MatchesOf(name)) + Cardinality(UnmatchedOf(name)) = 1
        /\ \A k \in DOMAIN matches : matches[k].main_district \in SourceNames
        /\ \A k \in DOMAIN unmatched_main : unmatched_main[k] \in SourceNames

\* C24: once analyze_district_matching has returned, every distinct source
\* name is in exactly one of matches (at most once) and unmatched_main, and
\* unmatched_ref is exactly the set of reference names no match entry points
\* to, hence disjoint from the matched reference names.
C24_ResultsPartitionInputs ==
    /\ SourceNamesPartitioned
    /\ AnalysisReported =>
          /\ unmatched_ref = {ref_districts[k] : k \in DOMAIN ref_districts} \ MatchedNames
          /\ unmatched_ref \cap MatchedNames = {}

\* C24, the stdlib script alone.
C24_StdlibResultsPartitionInputs ==
    impl = "stdlib" => C24_ResultsPartitionInputs

\* C24: two source names share one matched reference name, while another
\* reference name is matched by none.
C24_SharedReferenceName ==
    /\ AnalysisReported
    /\ \E i, j \in DOMAIN matches :
          i /= j /\ matches[i].reference_district = matches[j].reference_district
    /\ unmatched_ref /= {}

\* C24: the pandas script reports the one reference entity both as matched and
\* as unmatched.
C24_MatchedAndUnmatched ==
    /\ impl = "pandas"
    /\ AnalysisReported
    /\ unmatched_ref \cap MatchedNames /= {}

(***************************************************************************)
(* Equivalence of the two scripts (specification SpecEq).                  *)
(***************************************************************************)
\* Both runs have ended.
BothRan == impl = "pandas" /\ first_run /= NoRun /\ pc \in {"done", "aborted", "error"}

\* No score of a source name against a reference name lies between the two
\* default thresholds, 0.7 included and 0.8 excluded: each script gives what
\* it would give with the other's threshold.
SameThresholdOutcome ==
    \A j \in DOMAIN main_data, n \in DOMAIN ref_data :
        LET s == similarity(clean_district_name(main_data[j][main_klassifikator_idx]),
                            ref_data[n][ref_name_uz_idx])
        IN ScoreGE(s, DefaultThreshold("pandas")) \/ ~ScoreGE(s, DefaultThreshold("stdlib"))

\* The assignment of a run: source name, reference name as the results file
\* holds it, score.
AssignmentOf(ms) ==
    {<<ms[k].main_district, CsvCell(ms[k].reference_district), ms[k].match_score>>
        : k \in DOMAIN ms}

SameAssignment == AssignmentOf(first_run.matches) = AssignmentOf(matches)

SameMergedRows ==
    /\ Len(first_run.merged_data) = Len(merged_data)
    /\ \A i \in DOMAIN merged_data :
          i \in DOMAIN first_run.merged_data
              => Canonical(first_run.merged_data[i]) = Canonical(merged_data[i])

\* C22: on the same primary rows and the same reference rows, and with
\* thresholds that make no difference, the stdlib script and the pandas
\* script give the same assignment with the same scores and the same merged
\* rows (same count, same canonical values per row), ties and duplicate
\* reference names included.
C22_ImplementationsEquivalent ==
    BothRan /\ SameThresholdOutcome => SameAssignment /\ SameMergedRows

\* Reference names that are all present and all different, and no source name
\* with two candidates of the same score.
RefNamesPlain ==
    /\ \A n \in DOMAIN ref_data : ref_data[n][ref_name_uz_idx] \notin {Empty, NaN}
    /\ \A m, n \in DOMAIN ref_data :
          m /= n => ref_data[m][ref_name_uz_idx] /= ref_data[n][ref_name_uz_idx]
NoTies ==
    \A j \in DOMAIN main_data : \A m, n \in DOMAIN ref_data :
        LET c == clean_district_name(main_data[j][main_klassifikator_idx])
        IN m /= n => ~ScoreEQ(similarity(c, ref_data[m][ref_name_uz_idx]),
                              similarity(c, ref_data[n][ref_name_uz_idx]))

\* C22, without ties, duplicates and empty names: the two scripts agree.
C22_EquivalentOnPlainInputs ==
    BothRan /\ SameThresholdOutcome /\ RefNamesPlain /\ NoTies
        => SameAssignment /\ SameMergedRows

\* C22: both scripts wrote a merged file, for distinct non-empty reference
\* names, and their assignments differ (a tie resolved differently).
C22_TieResolvedDifferently ==
    /\ BothRan /\ SameThresholdOutcome /\ RefNamesPlain
    /\ pc = "done" /\ first_run.pc = "done"
    /\ ~SameAssignment

\* C22: both scripts wrote a merged file with the same assignment, and the
\* files differ in their number of rows (a duplicate reference name).
C22_DuplicateNameRowsDiffer ==
    /\ BothRan /\ SameThresholdOutcome /\ SameAssignment
    /\ pc = "done" /\ first_run.pc = "done"
    /\ Len(first_run.merged_data) /= Len(merged_data)

====
